---- MODULE Spec2Model ----
(***************************************************************************)
(* A model of fuzzcheck-rs: the integer mutators                            *)
(* (fuzzcheck_mutators/src/integer.rs), the recursive mutators             *)
(* (fuzzcheck/src/mutators/recursive.rs) and the product pool              *)
(* (fuzzcheck/src/and_sensor_and_pool.rs).                                 *)
(*                                                                         *)
(* Each subsystem has its own specification over its own variables; the    *)
(* variables of the other subsystems stay at their initial values.         *)
(***************************************************************************)
EXTENDS Integers, Sequences, FiniteSets, TLC

VARIABLES
    \* ---- integer mutators ----
    size,       \* $size of the macro instantiation: 8 or 16
    signed,     \* TRUE for impl_signed_mutator, FALSE for impl_unsigned_mutator
    value,      \* the value being mutated (*value)
    icache,     \* the cache, of the unit type ()
    mstep,      \* MutationStep (*step of ordered_mutate)
    astep,      \* ArbitraryStep (*step of ordered_arbitrary)
    tokens,     \* the UnmutateTokens returned and not yet applied, oldest first
    trail,      \* history: the value before the first pending mutation and after each
    res,        \* what the last call did and returned
    produced,   \* history: the values ordered_arbitrary has returned so far
    \* ---- recursive mutators ----
    rc,         \* the Rc<M> of the RecursiveMutator, as the Weak<M> of RecurToMutator sees it
    rvalue,     \* the value of the recursive type being mutated
    rcache,     \* the caller's cache for rvalue
    rstep,      \* the caller's RecursiveMutatorMutationStep
    rtokens,    \* the RecursiveMutatorUnmutateTokens returned and not yet applied
    rtrail,     \* history: <<value, cache>> before the pending mutation and after it
    rres,       \* what the last call on the recursive mutators did and returned
    obs,        \* the complexity bounds read last: min_complexity, complexity, max_complexity
    \* ---- product pool ----
    p1,         \* AndPool.p1
    p2,         \* AndPool.p2
    percent_choose_first,   \* AndPool.percent_choose_first
    pres,       \* what the last call on the AndPool did and returned
    event_handler,  \* the event handler the driver gives to process and minify
    \* ---- array-of-counters sensor ----
    counters,   \* the static array [u64; N] that ArrayOfCounters.start points to
    recording,  \* where the sensor is in the bracket: "new", "recording", "stopped"
    written,    \* history: the counters written since the last start_recording
    delivered,  \* history: the pairs the handler was given by the last iteration
    sres,       \* what the last call on the sensor did
    \* ---- byte serializer ----
    sval,       \* the Vec<u8> value in memory
    sfile,      \* the bytes of the file
    ser,        \* what the last call on the serializer did and returned
    \* ---- cargo-fuzzcheck: input_minify_command ----
    folder,     \* the entries of the artifacts folder in read_dir order, or Unreadable
    input_file, \* arguments.input_file
    command,    \* arguments.command
    pc,         \* where input_minify_command is: "start", "loop", "returned_err", "panicked"
    cres,       \* what the last step of input_minify_command did
    \* ---- product sensor ----
    s1,         \* AndSensor.s1
    s2,         \* AndSensor.s2
    ares        \* what the last call on the AndSensor did

intVars == <<size, signed, value, icache, mstep, astep, tokens, trail, res, produced>>

recVars == <<rc, rvalue, rcache, rstep, rtokens, rtrail, rres, obs>>

poolVars == <<p1, p2, percent_choose_first, pres, event_handler>>

aocVars == <<counters, recording, written, delivered, sres>>

serVars == <<sval, sfile, ser>>

cliVars == <<folder, input_file, command, pc, cres>>

andVars == <<s1, s2, ares>>

vars == <<intVars, recVars, poolVars, aocVars, serVars, cliVars, andVars>>

-----------------------------------------------------------------------------
\* Bounds of the model.

\* ordered_mutate is offered steps 0 .. MaxStep - 1 in SpecOrd
MaxStep == 270
\* calls of ordered_arbitrary made after the enumeration is exhausted
MaxExtraCalls == 3
\* pending (not yet undone) mutations in SpecLifo
MaxDepth == 3
\* ordered_mutate is offered steps 0 .. MaxLifoStep - 1 in SpecLifo
MaxLifoStep == 9
\* calls of ordered_arbitrary made from each step in SpecWide
MaxWideCalls == 1

\* the widths $size the macros are instantiated with that fit TLC's integers
Sizes == {8, 16}

-----------------------------------------------------------------------------
\* Machine arithmetic.

Pow2(n) == 2 ^ n

\* <$name>::MAX of the unsigned type of n bits
UMax(n) == Pow2(n) - 1

RECURSIVE BitXor(_, _)
BitXor(a, b) ==
    IF a = 0 /\ b = 0 THEN 0
    ELSE (((a % 2) + (b % 2)) % 2) + 2 * BitXor(a \div 2, b \div 2)

RECURSIVE BitAnd(_, _)
BitAnd(a, b) ==
    IF a = 0 \/ b = 0 THEN 0
    ELSE ((a % 2) * (b % 2)) + 2 * BitAnd(a \div 2, b \div 2)

RECURSIVE BitOr(_, _)
BitOr(a, b) ==
    IF a = 0 /\ b = 0 THEN 0
    ELSE (IF a % 2 = 1 \/ b % 2 = 1 THEN 1 ELSE 0) + 2 * BitOr(a \div 2, b \div 2)

\* x >> n on a u64 that is below 2^31 in every state of the model
ShiftRight(x, n) == IF n >= 31 THEN 0 ELSE x \div Pow2(n)

\* (x << n) as the unsigned type of sz bits
ShiftLeft(x, n, sz) == (x * Pow2(n)) % Pow2(sz)

\* u8 arithmetic of binary_search_arbitrary
WrappingAdd8(a, b) == (a + b) % 256
WrappingSub8(a, b) == (a + 256 - b) % 256

\* `x as $name` for a signed $name of sz bits: two's complement reinterpretation
AsSigned(u, sz) == IF u >= Pow2(sz - 1) THEN u - Pow2(sz) ELSE u
\* the bits of a signed value of sz bits, as the unsigned number
AsUnsigned(s, sz) == IF s < 0 THEN s + Pow2(sz) ELSE s

\* `x as $name` from the unsigned bits, for either macro
Cast(u, sz, sg) == IF sg THEN AsSigned(u, sz) ELSE u

\* value.wrapping_add(n) and value.wrapping_sub(n) on $name
wrapping_add(v, n, sz, sg) ==
    Cast((AsUnsigned(v, sz) + n) % Pow2(sz), sz, sg)
wrapping_sub(v, n, sz, sg) ==
    Cast((AsUnsigned(v, sz) + Pow2(sz) - n) % Pow2(sz), sz, sg)

\* the values of $name
TypeRange(sz, sg) ==
    IF sg THEN (0 - Pow2(sz - 1)) .. (Pow2(sz - 1) - 1) ELSE 0 .. UMax(sz)

-----------------------------------------------------------------------------
\* integer.rs: the shuffled table and the permutation built from it.

RECURSIVE binary_search_arbitrary(_, _, _)
binary_search_arbitrary(low, high, step) ==
    LET next == WrappingAdd8(low, WrappingSub8(high, low) \div 2)
    IN  IF WrappingAdd8(low, 1) = high
        THEN (IF step % 2 = 0 THEN high ELSE low)
        ELSE IF step = 0 THEN next
        ELSE IF step % 2 = 1
        THEN binary_search_arbitrary(WrappingAdd8(next, 1), high, step \div 2)
        ELSE binary_search_arbitrary(low, WrappingSub8(next, 1), (step - 1) \div 2)

\* Default::default(): shuffled_integers[i] = binary_search_arbitrary(0, u8::MAX, i)
shuffled_integers == [i \in 0 .. 255 |-> binary_search_arbitrary(0, 255, i)]

GRANULARITY == 8
STEP_MASK == 255

RECURSIVE uniform_permutation_loop(_, _, _, _, _)
uniform_permutation_loop(step, sz, i, prev, result) ==
    IF i >= sz \div GRANULARITY THEN result
    ELSE LET step_i == BitAnd(BitXor(ShiftRight(step, i * GRANULARITY), prev), STEP_MASK)
             p == shuffled_integers[step_i]
         IN  uniform_permutation_loop(step, sz, i + 1, p,
                 BitOr(result, ShiftLeft(p, sz - (i + 1) * GRANULARITY, sz)))

\* a mutant: the bytes after the first are drawn from the low byte of the step
uniform_permutation_low_byte(step, sz) ==
    LET step_i == BitAnd(step, STEP_MASK)
        prev == shuffled_integers[step_i]
    IN  uniform_permutation_loop(step_i, sz, 1, prev,
            ShiftLeft(prev, sz - GRANULARITY, sz))

\* uniform_permutation(&self, step) -> the unsigned type of sz bits
uniform_permutation(step, sz) ==
    LET step_i == BitAnd(step, STEP_MASK)
        prev == shuffled_integers[step_i]
    IN  uniform_permutation_loop(step, sz, 1, prev,
            ShiftLeft(prev, sz - GRANULARITY, sz))

\* max_complexity, min_complexity and complexity of every integer mutator (8.0)
Int_max_complexity == 8
Int_min_complexity == 8
Int_complexity(v, c) == 8


\* 10u64.saturating_add(<$name>::MAX as u64): the sum is far below u64::MAX for
\* the widths of Sizes, so the addition never saturates
saturating_add(a, b) == a + b

-----------------------------------------------------------------------------
\* integer.rs: the Mutator implementations generated by the two macros.
\* A call returns a record: `some` tells Some from None, the other fields are
\* the returned value and the new contents of the &mut arguments.

\* a mutant: the exhaustion test written `>=`, losing the last value
unsigned_ordered_arbitrary_ge(step, max_cplx, sz) ==
    IF step >= UMax(sz)
    THEN [some |-> FALSE, val |-> 0, step |-> step]
    ELSE [some |-> TRUE, val |-> uniform_permutation(step, sz), step |-> step + 1]

\* impl_unsigned_mutator: ordered_arbitrary
unsigned_ordered_arbitrary(step, max_cplx, sz) ==
    IF step > UMax(sz)
    THEN [some |-> FALSE, val |-> 0, step |-> step]
    ELSE [some |-> TRUE, val |-> uniform_permutation(step, sz), step |-> step + 1]

\* impl_signed_mutator: ordered_arbitrary
signed_ordered_arbitrary(step, max_cplx, sz) ==
    IF step > UMax(sz)
    THEN [some |-> FALSE, val |-> 0, step |-> step]
    ELSE [some |-> TRUE, val |-> AsSigned(uniform_permutation(step, sz), sz),
          step |-> step + 1]

\* a mutant: the parity test of the nudge inverted (subtracts first)
mutated_value_parity(v, step, sz, sg) ==
    IF step < 8
    THEN LET nudge == step + 2
         IN  IF nudge % 2 = 1
             THEN wrapping_add(v, nudge \div 2, sz, sg)
             ELSE wrapping_sub(v, nudge \div 2, sz, sg)
    ELSE Cast(uniform_permutation(step - 7, sz), sz, sg)

\* the block `*value = { ... }` shared by both ordered_mutate
mutated_value(v, step, sz, sg) ==
    IF step < 8
    THEN LET nudge == step + 2
         IN  IF nudge % 2 = 0
             THEN wrapping_add(v, nudge \div 2, sz, sg)
             ELSE wrapping_sub(v, nudge \div 2, sz, sg)
    ELSE Cast(uniform_permutation(step - 7, sz), sz, sg)

\* a mutant: the step is left where it was
unsigned_ordered_mutate_same_step(v, step, max_cplx, sz) ==
    IF step > saturating_add(10, UMax(sz))
    THEN [some |-> FALSE, token |-> 0, value |-> v, step |-> step]
    ELSE [some |-> TRUE, token |-> v,
          value |-> mutated_value(v, step, sz, FALSE), step |-> step]

\* impl_unsigned_mutator: ordered_mutate
unsigned_ordered_mutate(v, step, max_cplx, sz) ==
    IF step > saturating_add(10, UMax(sz))
    THEN [some |-> FALSE, token |-> 0, value |-> v, step |-> step]
    ELSE [some |-> TRUE, token |-> v,
          value |-> mutated_value(v, step, sz, FALSE), step |-> step + 1]

\* impl_signed_mutator: ordered_mutate (it has no exhaustion test)
signed_ordered_mutate(v, step, max_cplx, sz) ==
    [some |-> TRUE, token |-> v,
     value |-> mutated_value(v, step, sz, TRUE), step |-> step + 1]

\* a mutant: the token is the new value instead of the replaced one
random_mutate_new(v, r) == [token |-> r, value |-> r]

\* random_mutate of both macros: std::mem::replace(value, $rand(..)), r = $rand(..)
random_mutate(v, r) == [token |-> v, value |-> r]

\* a mutant: the token is dropped and the value left as it is
unmutate_keep(v, t) == v

\* unmutate of both macros: *value = t
unmutate(v, t) == t

ordered_arbitrary(step, max_cplx, sz, sg) ==
    IF sg THEN signed_ordered_arbitrary(step, max_cplx, sz)
    ELSE unsigned_ordered_arbitrary(step, max_cplx, sz)

ordered_mutate(v, step, max_cplx, sz, sg) ==
    IF sg THEN signed_ordered_mutate(v, step, max_cplx, sz)
    ELSE unsigned_ordered_mutate(v, step, max_cplx, sz)

-----------------------------------------------------------------------------
\* Inputs of the integer specifications.

\* max_cplx arguments; INFINITY stands for f64::INFINITY
INFINITY == 1000000
MaxCplxInputs == {0, 7, 8, 9, INFINITY}

\* values near both ends and the middle of the range of $name
EdgeValues(sz, sg) ==
    IF sg THEN {0 - Pow2(sz - 1), 0 - 1, 0, 100, Pow2(sz - 1) - 1}
    ELSE {0, 1, 100, Pow2(sz - 1), UMax(sz)}

\* start values: every value of the 8-bit types, edge values of the wider ones
StartValues(sz, sg) == IF sz = 8 THEN TypeRange(sz, sg) ELSE EdgeValues(sz, sg)

\* results of $rand(..) in SpecLifo
RandValues(sz, sg) == IF sg THEN {0 - Pow2(sz - 1), 0 - 1, 7} ELSE {0, 7, UMax(sz)}

Last(s) == s[Len(s)]
Front(s) == SubSeq(s, 1, Len(s) - 1)

\* res: op, the call; some, whether it returned a value or token; val, the value
\* returned or left in *value; pre, *value when the call was made; hist, for
\* unmutate, the value recorded before the mutation it undoes; step, the step
\* passed; maxc, the max_cplx passed; n, the number of calls (ordered_arbitrary)
\* or of pending tokens (unmutate) when the call was made
NoCall == [op |-> "none", some |-> FALSE, val |-> 0, pre |-> 0, hist |-> 0,
           step |-> 0, maxc |-> 0, n |-> 0]

InitInt(sizes, edgesOnly) ==
    /\ size \in sizes
    /\ signed \in BOOLEAN
    /\ value \in IF edgesOnly THEN EdgeValues(size, signed)
                              ELSE StartValues(size, signed)
    /\ icache = "unit"
    /\ mstep = 0
    /\ astep = 0
    /\ tokens = <<>>
    /\ trail = <<value>>
    /\ res = NoCall
    /\ produced = {}

-----------------------------------------------------------------------------
\* The calls a driver makes on an integer mutator.

\* the widths whose values are few enough for `produced` to hold them
ArbSizes == {8}
\* the widths of two bytes
WideSizes == {16}

\* ordered_arbitrary(&mut astep, max_cplx)
OrderedArbitrary(maxCalls, cplxs) ==
    /\ res.n < maxCalls
    /\ \E max_cplx \in cplxs :
        LET r == ordered_arbitrary(astep, max_cplx, size, signed)
        IN  /\ astep' = r.step
            /\ produced' = IF r.some /\ size \in ArbSizes
                            THEN produced \cup {r.val} ELSE produced
            /\ res' = [op |-> "ordered_arbitrary", some |-> r.some, val |-> r.val,
                       pre |-> 0, hist |-> 0, step |-> astep, maxc |-> max_cplx,
                       n |-> res.n + 1]
    /\ UNCHANGED <<size, signed, value, icache, mstep, tokens, trail>>

\* ordered_mutate(&mut value, &mut cache, &mut mstep, max_cplx)
OrderedMutate(maxDepth, maxStep) ==
    /\ Len(tokens) < maxDepth
    /\ mstep < maxStep
    /\ \E max_cplx \in {INFINITY} :
        LET r == ordered_mutate(value, mstep, max_cplx, size, signed)
        IN  /\ value' = r.value
            /\ mstep' = r.step
            /\ tokens' = IF r.some THEN Append(tokens, r.token) ELSE tokens
            /\ trail' = IF r.some THEN Append(trail, r.value) ELSE trail
            /\ res' = [op |-> "ordered_mutate", some |-> r.some, val |-> r.value,
                       pre |-> value, hist |-> 0, step |-> mstep, maxc |-> max_cplx,
                       n |-> 0]
    /\ UNCHANGED <<size, signed, icache, astep, produced>>

\* random_mutate(&mut value, &mut cache, max_cplx)
RandomMutate(maxDepth) ==
    /\ Len(tokens) < maxDepth
    /\ \E rnd \in RandValues(size, signed) :
        LET r == random_mutate(value, rnd)
        IN  /\ value' = r.value
            /\ tokens' = Append(tokens, r.token)
            /\ trail' = Append(trail, r.value)
            /\ res' = [op |-> "random_mutate", some |-> TRUE, val |-> r.value,
                       pre |-> value, hist |-> 0, step |-> mstep, maxc |-> INFINITY,
                       n |-> 0]
    /\ UNCHANGED <<size, signed, icache, mstep, astep, produced>>

\* unmutate(&mut value, &mut cache, t) with the token returned last
Unmutate ==
    /\ tokens # <<>>
    /\ value' = unmutate(value, Last(tokens))
    /\ tokens' = Front(tokens)
    /\ trail' = Front(trail)
    /\ res' = [op |-> "unmutate", some |-> TRUE, val |-> unmutate(value, Last(tokens)),
               pre |-> value, hist |-> trail[Len(trail) - 1], step |-> mstep,
               maxc |-> 0, n |-> Len(tokens)]
    /\ UNCHANGED <<size, signed, icache, mstep, astep, produced>>


-----------------------------------------------------------------------------
\* recursive.rs: the recursive type of the module's example,
\*     struct S { content: bool, next: Option<Box<S>> }
\* A value of S is the non-empty sequence of its `content` fields, outermost
\* first; Tail(v) is the S boxed in `next`.

\* the longest chain of S in the model
MaxLen == 3

RECURSIVE SeqsOfLen(_)
SeqsOfLen(n) ==
    IF n = 0 THEN {<<>>}
    ELSE {<<b>> \o t : b \in BOOLEAN, t \in SeqsOfLen(n - 1)}

SValues == UNION {SeqsOfLen(n) : n \in 1 .. MaxLen}

\* The mutator M wrapped by RecursiveMutator<M>: the SMutator that make_mutator!
\* generates for S, with a RecurToMutator at `next`. It is given by its contract:
\* its cache memoizes the complexity, its tokens restore the value and the cache.
Inner_min_complexity == 2
Inner_max_complexity == INFINITY
SComplexity(v) == 2 * Len(v)
Inner_validate_value(v) == [some |-> TRUE, cache |-> [cplx |-> SComplexity(v)]]
Inner_complexity(v, cache) == cache.cplx
Inner_default_mutation_step(v, cache) == 0

\* step s < Len(v) flips the s-th content; step Len(v) grows the chain by one S
\* (or, at MaxLen, cuts the last S); later steps are exhausted
Inner_mutated(v, step) ==
    IF step < Len(v) THEN [v EXCEPT ![step + 1] = ~@]
    ELSE IF Len(v) < MaxLen THEN Append(v, FALSE)
    ELSE SubSeq(v, 1, Len(v) - 1)

Inner_ordered_mutate(v, cache, step, max_cplx) ==
    IF step > Len(v)
    THEN [some |-> FALSE, token |-> [value |-> v, cache |-> cache], cplx |-> 0,
          value |-> v, cache |-> cache, step |-> step]
    ELSE LET new == Inner_mutated(v, step)
         IN  [some |-> TRUE, token |-> [value |-> v, cache |-> cache],
              cplx |-> SComplexity(new), value |-> new,
              cache |-> Inner_validate_value(new).cache, step |-> step + 1]

Inner_random_mutate(v, cache, rnd) ==
    [token |-> [value |-> v, cache |-> cache], cplx |-> SComplexity(rnd),
     value |-> rnd, cache |-> Inner_validate_value(rnd).cache]

Inner_unmutate(v, cache, t) == [value |-> t.value, cache |-> t.cache]

\* the identity of the Rc<M> held by the RecursiveMutator, and of another one
ThisMutator == "m"
OtherMutator == "other"

\* `self` passed as parent by RecursiveMutator: a RecursiveMutator<M> holding ThisMutator
SelfParent == [type |-> "RecursiveMutator", mutator |-> ThisMutator]

\* self.reference.upgrade(): Some only while the Rc<M> is alive; during
\* Rc::new_cyclic and after the drop of the RecursiveMutator it is None
upgrade(rcs) == rcs = "alive"

-----------------------------------------------------------------------------
\* recursive.rs: RecurToMutator. `panic` tells that the call panicked
\* (upgrade().unwrap() on None).

RecurTo_max_complexity == INFINITY

\* a mutant: the fallback value returned whether or not the reference is alive
RecurTo_min_complexity_hack(rcs) == 1

RecurTo_min_complexity(rcs) ==
    IF upgrade(rcs) THEN Inner_min_complexity ELSE 1

RecurTo_complexity(rcs, v, cache) ==
    IF upgrade(rcs) THEN [panic |-> FALSE, val |-> Inner_complexity(v, cache)]
    ELSE [panic |-> TRUE, val |-> 0]

RecurTo_default_recursing_part_index(v, cache) == FALSE

\* a mutant: any RecursiveMutator is taken for the parent
RecurTo_recursing_part_any(parent, v, index) ==
    IF index THEN [some |-> FALSE, val |-> <<>>, index |-> index]
    ELSE IF parent.type = "RecursiveMutator"
         THEN [some |-> TRUE, val |-> v, index |-> TRUE]
         ELSE [some |-> FALSE, val |-> <<>>, index |-> TRUE]

\* recursing_part(&self, parent, value, index), self.reference pointing to ThisMutator
RecurTo_recursing_part(parent, v, index) ==
    IF index THEN [some |-> FALSE, val |-> <<>>, index |-> index]
    ELSE IF parent.type = "RecursiveMutator" /\ parent.mutator = ThisMutator
         THEN [some |-> TRUE, val |-> v, index |-> TRUE]
         ELSE [some |-> FALSE, val |-> <<>>, index |-> TRUE]

\* recursing_part of M: the only field of S that recurses is `next`; the
\* OptionMutator and BoxMutator hand a boxed S to the RecurToMutator
Inner_default_recursing_part_index(v, cache) ==
    RecurTo_default_recursing_part_index(v, cache)
Inner_recursing_part(parent, v, index) ==
    IF Len(v) > 1 THEN RecurTo_recursing_part(parent, Tail(v), index)
    ELSE [some |-> FALSE, val |-> <<>>, index |-> index]

-----------------------------------------------------------------------------
\* recursive.rs: RecursiveMutator.

RecursiveMutator_validate_value(v) == Inner_validate_value(v)
RecursiveMutator_complexity(v, cache) == Inner_complexity(v, cache)
RecursiveMutator_min_complexity == Inner_min_complexity
RecursiveMutator_default_recursing_part_index(v, cache) ==
    Inner_default_recursing_part_index(v, cache)

\* Option<RPI>: Some(idx) or None
SomeIndex(idx) == [some |-> TRUE, idx |-> idx]
NoIndex == [some |-> FALSE, idx |-> FALSE]

RecursiveMutator_default_mutation_step(v, cache) ==
    [mutation_step |-> Inner_default_mutation_step(v, cache),
     recursing_part_index |->
        SomeIndex(RecursiveMutator_default_recursing_part_index(v, cache))]

NoInnerToken == [value |-> <<>>, cache |-> [cplx |-> 0]]
Replace(x) == [kind |-> "Replace", x |-> x, t |-> NoInnerToken]
Token(t) == [kind |-> "Token", x |-> <<>>, t |-> t]

\* a mutant: the token is built from the clone before the swap, so it holds the
\* subpart instead of the replaced value
replace_by_subpart_noswap(v, cache, new, step) ==
    LET c == RecursiveMutator_validate_value(new)
    IN  [panic |-> ~c.some, some |-> TRUE, token |-> Replace(new),
         cplx |-> RecursiveMutator_complexity(new, c.cache),
         value |-> new, cache |-> cache, step |-> step]

\* the body shared by ordered_mutate and random_mutate when recursing_part
\* returned `new`: the value is swapped with the clone; `cache` of the body is a
\* new local binding, so the caller's cache is left as it was
replace_by_subpart(v, cache, new, step) ==
    LET c == RecursiveMutator_validate_value(new)
    IN  [panic |-> ~c.some, some |-> TRUE, token |-> Replace(v),
         cplx |-> RecursiveMutator_complexity(new, c.cache),
         value |-> new, cache |-> cache, step |-> step]

\* the branch of ordered_mutate taken when step.recursing_part_index is None
delegate_ordered_mutate(v, cache, step, max_cplx) ==
    LET r == Inner_ordered_mutate(v, cache, step.mutation_step, max_cplx)
    IN  [panic |-> FALSE, some |-> r.some, token |-> Token(r.token), cplx |-> r.cplx,
         value |-> r.value, cache |-> r.cache,
         step |-> [step EXCEPT !.mutation_step = r.step]]

\* a mutant: the recursing-part index advanced by recursing_part is not kept
RecursiveMutator_ordered_mutate_noadvance(v, cache, step, max_cplx) ==
    IF step.recursing_part_index.some
    THEN LET rp == Inner_recursing_part(SelfParent, v, step.recursing_part_index.idx)
         IN  IF rp.some
             THEN replace_by_subpart(v, cache, rp.val, step)
             ELSE delegate_ordered_mutate(v, cache,
                      [step EXCEPT !.recursing_part_index = NoIndex], max_cplx)
    ELSE delegate_ordered_mutate(v, cache, step, max_cplx)

RecursiveMutator_ordered_mutate(v, cache, step, max_cplx) ==
    IF step.recursing_part_index.some
    THEN LET rp == Inner_recursing_part(SelfParent, v, step.recursing_part_index.idx)
         IN  IF rp.some
             THEN replace_by_subpart(v, cache, rp.val,
                      [step EXCEPT !.recursing_part_index = SomeIndex(rp.index)])
             ELSE delegate_ordered_mutate(v, cache,
                      [step EXCEPT !.recursing_part_index = NoIndex], max_cplx)
    ELSE delegate_ordered_mutate(v, cache, step, max_cplx)

\* random_mutate; coin = self.rng.usize(..100), rnd the value M's random_mutate picks
RecursiveMutator_random_mutate(v, cache, max_cplx, coin, rnd) ==
    LET rp == Inner_recursing_part(SelfParent, v,
                  RecursiveMutator_default_recursing_part_index(v, cache))
        r == Inner_random_mutate(v, cache, rnd)
    IN  IF coin = 0 /\ rp.some
        THEN replace_by_subpart(v, cache, rp.val, 0)
        ELSE [panic |-> FALSE, some |-> TRUE, token |-> Token(r.token), cplx |-> r.cplx,
              value |-> r.value, cache |-> r.cache, step |-> 0]

RecursiveMutator_unmutate(v, cache, t) ==
    IF t.kind = "Replace" THEN [value |-> t.x, cache |-> cache]
    ELSE Inner_unmutate(v, cache, t.t)

-----------------------------------------------------------------------------
\* The calls a driver makes on the recursive mutators.

NoRecCall == [op |-> "none", kind |-> "none", some |-> FALSE, pre |-> <<>>,
              hist |-> <<>>, cplx |-> 0]
NoObs == [who |-> "none", rcs |-> "none", v |-> 0, panic |-> FALSE,
          min |-> 0, c |-> 0, max |-> 0]

\* the recursive mutators before any call: a validated value, its cache, its
\* default mutation step
InitRec(rcs) ==
    /\ rc = rcs
    /\ rvalue \in SValues
    /\ rcache = RecursiveMutator_validate_value(rvalue).cache
    /\ rstep = RecursiveMutator_default_mutation_step(rvalue, rcache)
    /\ rtokens = <<>>
    /\ rtrail = <<<<rvalue, rcache>>>>
    /\ rres = NoRecCall
    /\ obs = NoObs

\* the integer mutators left alone
IdleInt ==
    /\ size = 8
    /\ signed = FALSE
    /\ value = 0
    /\ icache = "unit"
    /\ mstep = 0
    /\ astep = 0
    /\ tokens = <<>>
    /\ trail = <<0>>
    /\ res = NoCall
    /\ produced = {}

\* the recursive mutators left alone
IdleRec ==
    /\ InitRec("alive")
    /\ rvalue = <<FALSE>>

\* RecursiveMutator::ordered_mutate(&mut rvalue, &mut rcache, &mut rstep, max_cplx)
Rec_OrderedMutate ==
    /\ rtokens = <<>>
    /\ LET r == RecursiveMutator_ordered_mutate(rvalue, rcache, rstep, INFINITY)
       IN  /\ ~r.panic
           /\ rvalue' = r.value
           /\ rcache' = r.cache
           /\ rstep' = r.step
           /\ rtokens' = IF r.some THEN <<r.token>> ELSE <<>>
           /\ rtrail' = IF r.some THEN Append(rtrail, <<r.value, r.cache>>) ELSE rtrail
           /\ rres' = [op |-> "ordered_mutate",
                       kind |-> IF r.some THEN r.token.kind ELSE "none",
                       some |-> r.some, pre |-> <<rvalue, rcache>>, hist |-> <<>>,
                       cplx |-> r.cplx]
    /\ UNCHANGED <<rc, obs>>

\* RecursiveMutator::random_mutate(&mut rvalue, &mut rcache, max_cplx)
Rec_RandomMutate ==
    /\ rtokens = <<>>
    /\ \E coin \in {0, 50}, rnd \in SValues :
        LET r == RecursiveMutator_random_mutate(rvalue, rcache, INFINITY, coin, rnd)
        IN  /\ ~r.panic
            /\ rvalue' = r.value
            /\ rcache' = r.cache
            /\ rtokens' = <<r.token>>
            /\ rtrail' = Append(rtrail, <<r.value, r.cache>>)
            /\ rres' = [op |-> "random_mutate", kind |-> r.token.kind, some |-> TRUE,
                        pre |-> <<rvalue, rcache>>, hist |-> <<>>, cplx |-> r.cplx]
    /\ UNCHANGED <<rc, rstep, obs>>

\* RecursiveMutator::unmutate(&mut rvalue, &mut rcache, t) with the token returned last
Rec_Unmutate ==
    /\ rtokens # <<>>
    /\ LET r == RecursiveMutator_unmutate(rvalue, rcache, Last(rtokens))
       IN  /\ rvalue' = r.value
           /\ rcache' = r.cache
           /\ rres' = [op |-> "unmutate", kind |-> Last(rtokens).kind, some |-> TRUE,
                       pre |-> <<rvalue, rcache>>,
                       hist |-> rtrail[Len(rtrail) - 1], cplx |-> 0]
    /\ rtokens' = Front(rtokens)
    /\ rtrail' = Front(rtrail)
    /\ UNCHANGED <<rc, rstep, obs>>

\* RecursiveMutator::new returns: Rc::new_cyclic has built the Rc<M>
Rec_NewReturns ==
    /\ rc = "constructing"
    /\ rc' = "alive"
    /\ UNCHANGED <<rvalue, rcache, rstep, rtokens, rtrail, rres, obs>>

\* the RecursiveMutator is dropped while a RecurToMutator is still held
Rec_Drop ==
    /\ rc = "alive"
    /\ rc' = "dropped"
    /\ UNCHANGED <<rvalue, rcache, rstep, rtokens, rtrail, rres, obs>>

\* min_complexity(), complexity(v, cache) and max_complexity() of an integer mutator
ObserveInt ==
    /\ \E sz \in Sizes, sg \in BOOLEAN :
        \E v \in StartValues(sz, sg) :
            obs' = [who |-> "int", rcs |-> "none", v |-> <<sz, sg, v>>, panic |-> FALSE,
                    min |-> Int_min_complexity, c |-> Int_complexity(v, "unit"),
                    max |-> Int_max_complexity]
    /\ UNCHANGED <<rc, rvalue, rcache, rstep, rtokens, rtrail, rres>>

\* min_complexity(), complexity(v, cache) and max_complexity() of the RecurToMutator
ObserveRecurTo ==
    /\ \E v \in SValues :
        LET c == RecurTo_complexity(rc, v, Inner_validate_value(v).cache)
        IN  obs' = [who |-> "RecurTo", rcs |-> rc, v |-> v, panic |-> c.panic,
                    min |-> RecurTo_min_complexity(rc), c |-> c.val,
                    max |-> RecurTo_max_complexity]
    /\ UNCHANGED <<rc, rvalue, rcache, rstep, rtokens, rtrail, rres>>

\* the parents recursing_part is called with: the RecursiveMutator that holds
\* the Rc<M> the reference points to, one that holds another Rc<M>, and a
\* mutator of another type
Parents ==
    {SelfParent,
     [type |-> "RecursiveMutator", mutator |-> OtherMutator],
     [type |-> "OtherMutator", mutator |-> ThisMutator]}

\* default_recursing_part_index(value, cache) of the RecurToMutator: the
\* caller holds a fresh index
RecurTo_DefaultIndex ==
    /\ \E v \in SValues :
        obs' = [who |-> "default_recursing_part_index", v |-> v,
                index |-> RecurTo_default_recursing_part_index(v,
                              Inner_validate_value(v).cache)]
    /\ UNCHANGED <<rc, rvalue, rcache, rstep, rtokens, rtrail, rres>>

\* recursing_part(parent, value, &mut index) of the RecurToMutator, on the
\* index that the caller holds
RecurTo_RecursingPart ==
    /\ obs.who \in {"default_recursing_part_index", "recursing_part"}
    /\ \E parent \in Parents :
        LET r == RecurTo_recursing_part(parent, obs.v, obs.index)
        IN  obs' = [who |-> "recursing_part", v |-> obs.v, parent |-> parent,
                    before |-> obs.index, index |-> r.index, some |-> r.some,
                    val |-> r.val]
    /\ UNCHANGED <<rc, rvalue, rcache, rstep, rtokens, rtrail, rres>>

(***************************************************************************)
(* The product pool: fuzzcheck/src/and_sensor_and_pool.rs                  *)
(*                                                                         *)
(* The two sub-pools are values of the Pool trait, whose implementations   *)
(* are modelled by the Pool contract: a sub-pool retains test cases under  *)
(* pool-local indices, admits a processed input or ignores it, evicts      *)
(* cases when it admits one, and never selects a dead end.                 *)
(***************************************************************************)

MaxSlots == 2

Slots == 1..MaxSlots
Cases == {"A", "B"}
Vacant == "vacant"
NoCase == "none"
Panic == "panic"
NoSlot == 0

EmptyPool == [cases |-> [s \in Slots |-> Vacant], dead |-> {}]

Retained(p) == {s \in Slots : p.cases[s] # Vacant}
Selectable(p) == Retained(p) \ p.dead

Pool_len(p) == Cardinality(Retained(p))

\* get on a retained index is the case; on any other index it is undefined:
\* the implementation panics or hands out whatever the slot now holds
Pool_get(p, idx) ==
    IF idx \in Retained(p) THEN {p.cases[idx]} ELSE Cases \cup {Panic}

Pool_get_mut(p, idx) == Pool_get(p, idx)

\* the case, or None when the sub-pool no longer has it for that generation
Pool_retrieve_after_processing(p, idx) ==
    IF idx \in Retained(p) THEN {p.cases[idx], NoCase} ELSE {NoCase}

Pool_get_random_index(p) ==
    IF Selectable(p) = {} THEN {NoSlot} ELSE Selectable(p)

Pool_mark_test_case_as_dead_end(p, idx) == [p EXCEPT !.dead = @ \cup {idx}]

NoDelta == [add |-> NoSlot, remove |-> {}]
Ignore == [admit |-> FALSE, evict |-> NoSlot, at |-> NoSlot]

\* what a sub-pool may decide for a processed input: ignore it, or admit a
\* clone of it at a free index after evicting at most one retained case
ProcessOutcomes(p) ==
    {Ignore} \cup
    {o \in [admit : {TRUE}, evict : {NoSlot} \cup Retained(p), at : Slots] :
        o.at \in (Slots \ Retained(p)) \cup {o.evict}}

Pool_process(p, input, o) ==
    IF ~o.admit
    THEN [pool |-> p, delta |-> NoDelta]
    ELSE LET kept == [s \in Slots |-> IF s = o.evict THEN Vacant ELSE p.cases[s]]
         IN [pool  |-> [cases |-> [kept EXCEPT ![o.at] = input],
                        dead  |-> p.dead \ {o.evict, o.at}],
             delta |-> [add |-> o.at,
                        remove |-> IF o.evict = NoSlot THEN {} ELSE {o.evict}]]

Min(a, b) == IF a < b THEN a ELSE b

\* the sets of cases a sub-pool may keep when asked to shrink to target_len
MinifyOutcomes(p, target_len) ==
    {keep \in SUBSET Retained(p) :
        Cardinality(keep) = Min(Pool_len(p), target_len)}

Pool_minify(p, keep) ==
    [pool  |-> [cases |-> [s \in Slots |-> IF s \in keep THEN p.cases[s] ELSE Vacant],
                dead  |-> p.dead \cap keep],
     delta |-> [add |-> NoSlot, remove |-> Retained(p) \ keep]]

HandlerResults(delta) == IF delta = NoDelta THEN {"Ok"} ELSE {"Ok", "Err"}

\* the orders in which a sub-pool may list the indices it removed
Orderings(S) ==
    IF S = {} THEN {<<>>}
    ELSE {q \in [1 .. Cardinality(S) -> S] :
            \A i, j \in 1 .. Cardinality(S) : i # j => q[i] # q[j]}

\* the folders the sub-pools give as path of their deltas
Path1 == "corpus/p1"
Path2 == "corpus/p2"

\* CorpusDelta { path, add: Option<(content, idx)>, remove: Vec<idx> } as a
\* sub-pool emits it; the Option is a sequence of at most one element
CorpusDelta(path, content, delta, removed) ==
    [path |-> path,
     add |-> IF delta.add = NoSlot THEN <<>>
             ELSE <<[content |-> content, idx |-> delta.add]>>,
     remove |-> removed]

\* ---- Either ----
Left(i) == [side |-> "Left", idx |-> i]
Right(j) == [side |-> "Right", idx |-> j]
NoneIndex == [side |-> "None", idx |-> NoSlot]

IndexInput(index) == [kind |-> "index", index |-> index, case |-> NoCase]
RefInput(c) == [kind |-> "ref", index |-> NoneIndex, case |-> c]

\* ---- AndPool ----
lift_corpus_delta_2_left(cd) ==
    [path |-> cd.path,
     add |-> [i \in 1 .. Len(cd.add) |->
                [content |-> cd.add[i].content, idx |-> Left(cd.add[i].idx)]],
     remove |-> [i \in 1 .. Len(cd.remove) |-> Left(cd.remove[i])]]

lift_corpus_delta_1(cd) ==
    [path |-> cd.path,
     add |-> [i \in 1 .. Len(cd.add) |->
                [content |-> cd.add[i].content, idx |-> Left(cd.add[i].idx)]],
     remove |-> [i \in 1 .. Len(cd.remove) |-> Left(cd.remove[i])]]

lift_corpus_delta_2(cd) ==
    [path |-> cd.path,
     add |-> [i \in 1 .. Len(cd.add) |->
                [content |-> cd.add[i].content, idx |-> Right(cd.add[i].idx)]],
     remove |-> [i \in 1 .. Len(cd.remove) |-> Right(cd.remove[i])]]

returns_early_never(r) == FALSE

\* the ? applied to the Result of p1.process and of p1.minify: an Err is
\* returned at once
returns_early(r) == r = "Err"

\* the event handlers of the model: both return Ok or an error; the logging
\* one also keeps the deltas it is called with, next to what the sub-pool
\* emitted
Emitted(handler, side, delta, cd) ==
    IF handler = "logging" /\ delta # NoDelta
    THEN <<[side |-> side, delta |-> cd]>> ELSE <<>>
Handled(handler, delta, lifted) ==
    IF handler = "logging" /\ delta # NoDelta THEN <<lifted>> ELSE <<>>

AndPool_len_p1_only(q1, q2) == Pool_len(q1)

AndPool_len(q1, q2) == Pool_len(q1) + Pool_len(q2)

ValidIndices(q1, q2) ==
    {Left(i) : i \in Retained(q1)} \cup {Right(j) : j \in Retained(q2)}

AndPool_get_swapped(q1, q2, index) ==
    IF index.side = "Left" THEN Pool_get(q2, index.idx) ELSE Pool_get(q1, index.idx)

AndPool_get(q1, q2, index) ==
    IF index.side = "Left" THEN Pool_get(q1, index.idx) ELSE Pool_get(q2, index.idx)

AndPool_get_mut(q1, q2, index) ==
    IF index.side = "Left" THEN Pool_get_mut(q1, index.idx)
    ELSE Pool_get_mut(q2, index.idx)

AndPool_retrieve_after_processing(q1, q2, index) ==
    IF index.side = "Left" THEN Pool_retrieve_after_processing(q1, index.idx)
    ELSE Pool_retrieve_after_processing(q2, index.idx)

\* the case the input designates when the call is made
Designated(q1, q2, input) ==
    IF input.kind = "ref" THEN input.case
    ELSE CHOOSE c \in AndPool_get(q1, q2, input.index) : TRUE

\* get_input_1, evaluated before p1.process: the test case p1 is given, and
\* the sub-pool calls made to obtain it
get_input_1(q1, q2, input) ==
    IF input.kind = "ref" THEN [case |-> {input.case}, calls |-> <<>>]
    ELSE IF input.index.side = "Right"
         THEN [case |-> Pool_get(q2, input.index.idx), calls |-> <<"p2.get">>]
         ELSE [case |-> Pool_get(q1, input.index.idx), calls |-> <<>>]

\* get_input_2, evaluated after p1.process has returned, on the p1 it left
get_input_2(q1, q2, input) ==
    IF input.kind = "ref" THEN [case |-> {input.case}, calls |-> <<>>]
    ELSE IF input.index.side = "Left"
         THEN [case |-> Pool_get(q1, input.index.idx), calls |-> <<"p1.get">>]
         ELSE [case |-> Pool_get(q2, input.index.idx), calls |-> <<>>]

RngDraws == {0, 49, 50, 99}

choose_first_le(r, percent) == r <= percent

\* self.rng.usize(0..100) < self.percent_choose_first
choose_first(r, percent) == r < percent
PercentChooseFirst == {0, 50, 100}

NoPoolCall ==
    [op |-> "none", input |-> RefInput(NoCase), designated |-> NoCase,
     calls |-> <<>>, fed1 |-> NoCase, fed2 |-> NoCase, result |-> "none",
     index |-> NoneIndex, target_len |-> 0, len |-> 0, r |-> 0,
     got |-> NoCase, r1 |-> "none", r2 |-> "none", emitted |-> <<>>,
     events |-> <<>>]

\* the states a sub-pool can be in: every one is reached from the empty
\* sub-pool by process, minify and mark_test_case_as_dead_end
PoolStates ==
    {p \in [cases : [Slots -> Cases \cup {Vacant}], dead : SUBSET Slots] :
        p.dead \subseteq Retained(p)}

IdlePool ==
    /\ p1 = EmptyPool
    /\ p2 = EmptyPool
    /\ percent_choose_first = 50
    /\ pres = NoPoolCall
    /\ event_handler = "plain"

ProcessInputs ==
    {IndexInput(index) : index \in ValidIndices(p1, p2)} \cup {RefInput(c) : c \in Cases}

AndPool_process ==
    \E input \in ProcessInputs :
    \E in1 \in get_input_1(p1, p2, input).case :
    \E o1 \in ProcessOutcomes(p1) :
        LET r1 == Pool_process(p1, in1, o1)
            calls1 == get_input_1(p1, p2, input).calls \o <<"p1.process">>
        IN \E rm1 \in Orderings(r1.delta.remove), h1 \in HandlerResults(r1.delta) :
            LET d1 == CorpusDelta(Path1, in1, r1.delta, rm1)
                call == [NoPoolCall EXCEPT !.op = "process", !.input = input,
                            !.designated = Designated(p1, p2, input), !.fed1 = in1,
                            !.r1 = h1,
                            !.emitted = Emitted(event_handler, "Left", r1.delta, d1),
                            !.events = Handled(event_handler, r1.delta,
                                               lift_corpus_delta_1(d1))]
            IN
            /\ p1' = r1.pool
            /\ IF returns_early(h1)
               THEN \* p1.process(..)? returns the handler's error
                    /\ p2' = p2
                    /\ pres' = [call EXCEPT !.calls = calls1, !.result = "Err",
                                   !.len = AndPool_len(r1.pool, p2)]
               ELSE \E in2 \in get_input_2(r1.pool, p2, input).case :
                    LET calls2 == calls1 \o get_input_2(r1.pool, p2, input).calls
                    IN IF in2 = Panic
                       THEN /\ p2' = p2
                            /\ pres' = [call EXCEPT !.calls = calls2,
                                           !.result = Panic,
                                           !.len = AndPool_len(r1.pool, p2)]
                       ELSE \E o2 \in ProcessOutcomes(p2) :
                            LET r2 == Pool_process(p2, in2, o2)
                            IN \E rm2 \in Orderings(r2.delta.remove),
                                  h2 \in HandlerResults(r2.delta) :
                                LET d2 == CorpusDelta(Path2, in2, r2.delta, rm2)
                                IN
                                /\ p2' = r2.pool
                                /\ pres' = [call EXCEPT
                                               !.calls = calls2 \o <<"p2.process">>,
                                               !.fed2 = in2, !.r2 = h2, !.result = h2,
                                               !.emitted = @ \o
                                                   Emitted(event_handler, "Right",
                                                           r2.delta, d2),
                                               !.events = @ \o
                                                   Handled(event_handler, r2.delta,
                                                           lift_corpus_delta_2(d2)),
                                               !.len = AndPool_len(r1.pool, r2.pool)]
    /\ UNCHANGED <<percent_choose_first, event_handler>>

AndPool_minify ==
    \E target_len \in 0..MaxSlots :
    \E keep1 \in MinifyOutcomes(p1, target_len) :
        LET r1 == Pool_minify(p1, keep1)
        IN \E rm1 \in Orderings(r1.delta.remove), h1 \in HandlerResults(r1.delta) :
            LET d1 == CorpusDelta(Path1, NoCase, r1.delta, rm1)
                call == [NoPoolCall EXCEPT !.op = "minify", !.target_len = target_len,
                            !.r1 = h1,
                            !.emitted = Emitted(event_handler, "Left", r1.delta, d1),
                            !.events = Handled(event_handler, r1.delta,
                                               lift_corpus_delta_1(d1))]
            IN
            /\ p1' = r1.pool
            /\ IF returns_early(h1)
               THEN /\ p2' = p2
                    /\ pres' = [call EXCEPT !.calls = <<"p1.minify">>,
                                   !.result = "Err",
                                   !.len = AndPool_len(r1.pool, p2)]
               ELSE \E keep2 \in MinifyOutcomes(p2, target_len) :
                    LET r2 == Pool_minify(p2, keep2)
                    IN \E rm2 \in Orderings(r2.delta.remove),
                          h2 \in HandlerResults(r2.delta) :
                        LET d2 == CorpusDelta(Path2, NoCase, r2.delta, rm2)
                        IN
                        /\ p2' = r2.pool
                        /\ pres' = [call EXCEPT
                                       !.calls = <<"p1.minify", "p2.minify">>,
                                       !.r2 = h2, !.result = h2,
                                       !.emitted = @ \o
                                           Emitted(event_handler, "Right", r2.delta, d2),
                                       !.events = @ \o
                                           Handled(event_handler, r2.delta,
                                                   lift_corpus_delta_2(d2)),
                                       !.len = AndPool_len(r1.pool, r2.pool)]
    /\ UNCHANGED <<percent_choose_first, event_handler>>

AndPool_get_random_index ==
    /\ \E r \in RngDraws :
       \E i1 \in Pool_get_random_index(p1), i2 \in Pool_get_random_index(p2) :
        LET idx1 == IF i1 = NoSlot THEN NoneIndex ELSE Left(i1)
            idx2 == IF i2 = NoSlot THEN NoneIndex ELSE Right(i2)
            first == IF choose_first(r, percent_choose_first) THEN idx1 ELSE idx2
            second == IF choose_first(r, percent_choose_first) THEN idx2 ELSE idx1
            call1 == IF choose_first(r, percent_choose_first)
                     THEN "p1.get_random_index" ELSE "p2.get_random_index"
            call2 == IF choose_first(r, percent_choose_first)
                     THEN "p2.get_random_index" ELSE "p1.get_random_index"
        IN pres' = [NoPoolCall EXCEPT !.op = "get_random_index", !.r = r,
                       !.index = IF first # NoneIndex THEN first ELSE second,
                       !.calls = IF first # NoneIndex THEN <<call1>>
                                 ELSE <<call1, call2>>,
                       !.result = "Ok",
                       !.len = AndPool_len(p1, p2)]
    /\ UNCHANGED <<p1, p2, percent_choose_first, event_handler>>

AndPool_mark_test_case_as_dead_end_swapped ==
    /\ \E index \in ValidIndices(p1, p2) :
        /\ IF index.side = "Left"
           THEN /\ p2' = Pool_mark_test_case_as_dead_end(p2, index.idx)
                /\ p1' = p1
           ELSE /\ p1' = Pool_mark_test_case_as_dead_end(p1, index.idx)
                /\ p2' = p2
        /\ pres' = [NoPoolCall EXCEPT !.op = "mark_test_case_as_dead_end",
                       !.index = index, !.result = "Ok",
                       !.len = AndPool_len(p1', p2')]
    /\ UNCHANGED <<percent_choose_first, event_handler>>

AndPool_mark_test_case_as_dead_end ==
    /\ \E index \in ValidIndices(p1, p2) :
        /\ IF index.side = "Left"
           THEN /\ p1' = Pool_mark_test_case_as_dead_end(p1, index.idx)
                /\ p2' = p2
           ELSE /\ p2' = Pool_mark_test_case_as_dead_end(p2, index.idx)
                /\ p1' = p1
        /\ pres' = [NoPoolCall EXCEPT !.op = "mark_test_case_as_dead_end",
                       !.index = index, !.result = "Ok",
                       !.len = AndPool_len(p1', p2')]
    /\ UNCHANGED <<percent_choose_first, event_handler>>

Accessors == {"get", "get_mut", "retrieve_after_processing"}

\* get, get_mut or retrieve_after_processing on the index that the call just
\* made returned (get_random_index) or was given (an accessor, a dead end)
AndPool_access ==
    /\ pres.op \in {"get_random_index", "mark_test_case_as_dead_end"} \cup Accessors
    /\ pres.index # NoneIndex
    /\ \E op \in Accessors :
       \E got \in (CASE op = "get" -> AndPool_get(p1, p2, pres.index)
                     [] op = "get_mut" -> AndPool_get_mut(p1, p2, pres.index)
                     [] OTHER -> AndPool_retrieve_after_processing(p1, p2, pres.index)) :
        pres' = [NoPoolCall EXCEPT !.op = op, !.index = pres.index,
                    !.calls = <<(IF pres.index.side = "Left" THEN "p1." ELSE "p2.") \o op>>,
                    !.got = got,
                    !.result = IF got = Panic THEN Panic ELSE "Ok",
                    !.len = AndPool_len(p1, p2)]
    /\ UNCHANGED <<p1, p2, percent_choose_first, event_handler>>

(***************************************************************************)
(* The array-of-counters sensor:                                           *)
(* fuzzcheck/src/sensors_and_pools/array_of_counters.rs                    *)
(***************************************************************************)

NumCounters == 2
MaxCounterValue == 2

CounterIndices == 0..(NumCounters - 1)
CounterValues == 0..MaxCounterValue

start_recording_first_only(cs) == [i \in CounterIndices |-> IF i = 0 THEN 0 ELSE cs[i]]

\* for x in slice.iter_mut() { *x = 0 }
start_recording(cs) == [i \in CounterIndices |-> 0]

RECURSIVE iterate_over_observations_all(_, _)
iterate_over_observations_all(cs, i) ==
    IF i >= NumCounters THEN <<>>
    ELSE <<<<i, cs[i]>>>> \o iterate_over_observations_all(cs, i + 1)

\* for (i, &x) in slice.iter().enumerate() { if x != 0 { handler((i, x)) } }:
\* the pairs given to the handler, in the order of the calls, from index i on
RECURSIVE iterate_over_observations(_, _)
iterate_over_observations(cs, i) ==
    IF i >= NumCounters THEN <<>>
    ELSE (IF cs[i] # 0 THEN <<<<i, cs[i]>>>> ELSE <<>>)
             \o iterate_over_observations(cs, i + 1)

NoSensorCall == [op |-> "none", pre |-> <<>>, again |-> FALSE, before |-> <<>>]

\* the static array holds whatever the program gave it
InitSensor ==
    /\ counters \in [CounterIndices -> CounterValues]
    /\ recording = "new"
    /\ written = {}
    /\ delivered = <<>>
    /\ sres = NoSensorCall

IdleSensor ==
    /\ counters = [i \in CounterIndices |-> 0]
    /\ recording = "new"
    /\ written = {}
    /\ delivered = <<>>
    /\ sres = NoSensorCall

Sensor_start_recording ==
    /\ recording \in {"new", "stopped"}
    /\ counters' = start_recording(counters)
    /\ recording' = "recording"
    /\ written' = {}
    /\ delivered' = <<>>
    /\ sres' = [NoSensorCall EXCEPT !.op = "start_recording", !.pre = counters]

\* the instrumented test function, or any other code, writes a counter
WriteCounter ==
    /\ \E i \in CounterIndices, x \in CounterValues :
        /\ counters' = [counters EXCEPT ![i] = x]
        /\ written' = written \cup {i}
    /\ sres' = [NoSensorCall EXCEPT !.op = "write", !.pre = counters]
    /\ UNCHANGED <<recording, delivered>>

Sensor_stop_recording ==
    /\ recording = "recording"
    /\ recording' = "stopped"
    /\ sres' = [NoSensorCall EXCEPT !.op = "stop_recording", !.pre = counters]
    /\ UNCHANGED <<counters, written, delivered>>

Sensor_iterate_over_observations ==
    /\ recording = "stopped"
    /\ delivered' = iterate_over_observations(counters, 0)
    /\ sres' = [op |-> "iterate_over_observations", pre |-> counters,
                again |-> sres.op = "iterate_over_observations",
                before |-> delivered]
    /\ UNCHANGED <<counters, recording, written>>

SensorOnly == UNCHANGED <<intVars, recVars, poolVars, serVars, cliVars, andVars>>

\* ---- AndSensor ----
\* fuzzcheck/src/and_sensor_and_pool.rs, with S1 = S2 = ArrayOfCounters<N>,
\* each over a static array of its own

\* ArrayOfCounters::start_recording, as AndSensor sees the sub-sensor
S_start_recording(s) == [counters |-> start_recording(s.counters), recording |-> "recording"]

\* ArrayOfCounters::stop_recording, as AndSensor sees the sub-sensor
S_stop_recording(s) == [s EXCEPT !.recording = "stopped"]

\* sensor.iterate_over_observations(handler): the calls of the handler, in order
Given(sensor, handler, s) ==
    LET observations == iterate_over_observations(s.counters, 0)
    IN  [k \in 1..Len(observations) |->
            [sensor |-> sensor, handler |-> handler, obs |-> observations[k]]]

NoAndCall == [op |-> "none", calls |-> <<>>, given |-> <<>>]

InitAnd ==
    /\ s1 \in [counters : [CounterIndices -> CounterValues], recording : {"new"}]
    /\ s2 \in [counters : [CounterIndices -> CounterValues], recording : {"new"}]
    /\ ares = NoAndCall

IdleAnd ==
    /\ s1 = [counters |-> [i \in CounterIndices |-> 0], recording |-> "new"]
    /\ s2 = [counters |-> [i \in CounterIndices |-> 0], recording |-> "new"]
    /\ ares = NoAndCall

AndSensor_start_recording ==
    /\ s1' = S_start_recording(s1)
    /\ s2' = S_start_recording(s2)
    /\ ares' = [NoAndCall EXCEPT !.op = "start_recording",
                    !.calls = <<<<1, "start_recording">>, <<2, "start_recording">>>>]

AndSensor_stop_recording ==
    /\ s1' = S_stop_recording(s1)
    /\ s2' = S_stop_recording(s2)
    /\ ares' = [NoAndCall EXCEPT !.op = "stop_recording",
                    !.calls = <<<<1, "stop_recording">>, <<2, "stop_recording">>>>]

AndSensor_iterate_over_observations_swapped ==
    /\ ares' = [op |-> "iterate_over_observations",
                calls |-> <<<<1, "iterate_over_observations">>,
                            <<2, "iterate_over_observations">>>>,
                given |-> Given(1, 1, s1) \o Given(2, 0, s2)]
    /\ UNCHANGED <<s1, s2>>

\* self.s1.iterate_over_observations(handler.0);
\* self.s2.iterate_over_observations(handler.1);
AndSensor_iterate_over_observations ==
    /\ ares' = [op |-> "iterate_over_observations",
                calls |-> <<<<1, "iterate_over_observations">>,
                            <<2, "iterate_over_observations">>>>,
                given |-> Given(1, 0, s1) \o Given(2, 1, s2)]
    /\ UNCHANGED <<s1, s2>>

\* the instrumented test function, or any other code, writes a counter of
\* one of the two arrays
AndSensor_WriteCounter ==
    /\ \E which \in {1, 2}, i \in CounterIndices, x \in CounterValues :
        /\ s1' = IF which = 1 THEN [s1 EXCEPT !.counters[i] = x] ELSE s1
        /\ s2' = IF which = 2 THEN [s2 EXCEPT !.counters[i] = x] ELSE s2
    /\ ares' = [NoAndCall EXCEPT !.op = "write"]

AndOnly == UNCHANGED <<intVars, recVars, poolVars, aocVars, serVars, cliVars>>

(***************************************************************************)
(* The byte serializer: fuzzcheck_serializer/src/lib.rs                    *)
(***************************************************************************)

MaxBytes == 3

Bytes == {0, 255}

RECURSIVE BytesOfLen(_)
BytesOfLen(n) ==
    IF n = 0 THEN {<<>>}
    ELSE {<<b>> \o t : b \in Bytes, t \in BytesOfLen(n - 1)}

ByteVectors == UNION {BytesOfLen(n) : n \in 0 .. MaxBytes}

\* data.into(): a new Vec<u8> with the bytes of the slice, in order
SliceIntoVec(data) == [i \in 1 .. Len(data) |-> data[i]]

\* value.clone(): a new Vec<u8> with the bytes of the vector, in order
VecClone(v) == [i \in 1 .. Len(v) |-> v[i]]

\* Some(data.into())
from_data(data) == [some |-> TRUE, value |-> SliceIntoVec(data)]

to_data_truncated(v) == IF v = <<>> THEN <<>> ELSE SubSeq(v, 1, Len(v) - 1)

\* value.clone()
to_data(v) == VecClone(v)

NoSerCall == [op |-> "none", in |-> <<>>, some |-> FALSE, prev |-> "none",
              previn |-> <<>>]

InitSer ==
    /\ sval \in ByteVectors
    /\ sfile \in ByteVectors
    /\ ser = NoSerCall

IdleSer ==
    /\ sval = <<>>
    /\ sfile = <<>>
    /\ ser = NoSerCall

\* the value is written to the file
Ser_to_data ==
    /\ sfile' = to_data(sval)
    /\ ser' = [op |-> "to_data", in |-> sval, some |-> TRUE, prev |-> ser.op,
               previn |-> ser.in]
    /\ UNCHANGED sval

\* the file is read as a value
Ser_from_data ==
    /\ sval' = from_data(sfile).value
    /\ ser' = [op |-> "from_data", in |-> sfile, some |-> from_data(sfile).some,
               prev |-> ser.op, previn |-> ser.in]
    /\ UNCHANGED sfile

\* the fuzzer has another value, or another file is found in the corpus
Ser_new_input ==
    /\ sval' \in ByteVectors
    /\ sfile' \in ByteVectors
    /\ ser' = NoSerCall

SerOnly == UNCHANGED <<intVars, recVars, poolVars, aocVars, cliVars, andVars>>

(***************************************************************************)
(* cargo-fuzzcheck: cargo-fuzzcheck/src/lib.rs, input_minify_command       *)
(*                                                                         *)
(* A file stem is the sequence of its characters.                          *)
(***************************************************************************)

MaxFiles == 3

Digits == {"0", "1", "2", "3", "4", "5", "6", "7", "8", "9"}

DigitValue(c) ==
    CASE c = "0" -> 0 [] c = "1" -> 1 [] c = "2" -> 2 [] c = "3" -> 3
      [] c = "4" -> 4 [] c = "5" -> 5 [] c = "6" -> 6 [] c = "7" -> 7
      [] c = "8" -> 8 [] OTHER -> 9

\* the stems of the files that the folders of the model are made of:
\* 2--b, 12--a--b, -1--c, x--a, 1-a, NaN--a
Stems ==
    { <<"2", "-", "-", "b">>,
      <<"1", "2", "-", "-", "a", "-", "-", "b">>,
      <<"-", "1", "-", "-", "c">>,
      <<"x", "-", "-", "a">>,
      <<"1", "-", "a">>,
      <<"N", "a", "N", "-", "-", "a">> }

Unreadable == <<<<"unreadable">>>>

RECURSIVE FoldersOfLen(_)
FoldersOfLen(n) ==
    IF n = 0 THEN {<<>>}
    ELSE {Append(f, s) : f \in FoldersOfLen(n - 1), s \in Stems}

\* a folder holds each file once
Folders ==
    {f \in UNION {FoldersOfLen(n) : n \in 0 .. MaxFiles} :
        \A i, j \in 1 .. Len(f) : i # j => f[i] # f[j]}

\* the place of the first "--" in the stem, 0 if there is none
FirstSeparator(s) ==
    LET places == {i \in 1 .. (Len(s) - 1) : s[i] = "-" /\ s[i + 1] = "-"}
    IN IF places = {} THEN 0
       ELSE CHOOSE i \in places : \A j \in places : i <= j

\* stem.splitn(2, "--").collect()
splitn2(s) ==
    IF FirstSeparator(s) = 0 THEN <<s>>
    ELSE <<SubSeq(s, 1, FirstSeparator(s) - 1),
           SubSeq(s, FirstSeparator(s) + 2, Len(s))>>

RECURSIVE DecimalValue(_)
DecimalValue(t) ==
    IF t = <<>> THEN 0
    ELSE 10 * DecimalValue(SubSeq(t, 1, Len(t) - 1)) + DigitValue(t[Len(t)])

AllDigits(t) == t # <<>> /\ \A i \in 1 .. Len(t) : t[i] \in Digits

\* str::parse::<f64>() on the strings the stems of the model begin with: an
\* optional sign and decimal digits, or NaN
parse_f64(t) ==
    IF t = <<"N", "a", "N">> THEN [ok |-> TRUE, nan |-> TRUE, val |-> 0]
    ELSE IF AllDigits(t) THEN [ok |-> TRUE, nan |-> FALSE, val |-> DecimalValue(t)]
    ELSE IF Len(t) > 1 /\ t[1] = "-" /\ AllDigits(Tail(t))
         THEN [ok |-> TRUE, nan |-> FALSE, val |-> 0 - DecimalValue(Tail(t))]
    ELSE IF Len(t) > 1 /\ t[1] = "+" /\ AllDigits(Tail(t))
         THEN [ok |-> TRUE, nan |-> FALSE, val |-> DecimalValue(Tail(t))]
    ELSE [ok |-> FALSE, nan |-> FALSE, val |-> 0]

\* the closure given to filter_map: Some((path, cplx)) or None
file_with_complexity(s) ==
    IF Len(splitn2(s)) = 2 /\ parse_f64(splitn2(s)[1]).ok
    THEN <<[path |-> s, cplx |-> parse_f64(splitn2(s)[1])]>>
    ELSE <<>>

RECURSIVE files_with_complexity(_)
files_with_complexity(f) ==
    IF f = <<>> THEN <<>>
    ELSE file_with_complexity(Head(f)) \o files_with_complexity(Tail(f))

\* PartialOrd::partial_cmp(&x.1, &y.1).unwrap_or(Ordering::Equal)
compare(x, y) ==
    IF x.cplx.nan \/ y.cplx.nan THEN "Equal"
    ELSE IF x.cplx.val < y.cplx.val THEN "Less"
    ELSE IF x.cplx.val > y.cplx.val THEN "Greater"
    ELSE "Equal"

\* Iterator::min_by: the fold that keeps the first of two equal elements
RECURSIVE min_by_fold(_, _)
min_by_fold(acc, rest) ==
    IF rest = <<>> THEN acc
    ELSE min_by_fold(IF compare(acc, Head(rest)) = "Greater" THEN Head(rest) ELSE acc,
                     Tail(rest))

NoPath == [some |-> FALSE, path |-> <<>>]

simplest_input_file(f) ==
    IF f = Unreadable THEN NoPath
    ELSE IF files_with_complexity(f) = <<>> THEN NoPath
    ELSE [some |-> TRUE,
          path |-> min_by_fold(Head(files_with_complexity(f)),
                               Tail(files_with_complexity(f))).path]

\* arguments.input_file as given on the command line: the file to minify
GivenFile == <<"i", "n", "p", "u", "t">>

next_input_file_keep(f, previous) == previous

\* simplest_input_file(&artifacts_folder).or(arguments.input_file)
next_input_file(f, previous) ==
    IF simplest_input_file(f).some THEN simplest_input_file(f).path ELSE previous

\* what running or launching the executable gives: an error of the launch
\* itself, or the exit status of the run
RunOutcomes == {"Err", "success", "failure"}

NoCliStep == [op |-> "none", folder |-> <<>>, simplest |-> NoPath,
              previous |-> GivenFile, outcome |-> "none", again |-> FALSE]

InitCli ==
    /\ folder \in Folders \cup {Unreadable}
    /\ input_file = GivenFile
    /\ command = "MinifyInput"
    /\ pc = "start"
    /\ cres = NoCliStep

IdleCli ==
    /\ folder = <<>>
    /\ input_file = GivenFile
    /\ command = "MinifyInput"
    /\ pc = "start"
    /\ cres = NoCliStep

\* input_minify_command up to the loop: the folder is created if it can be,
\* the simplest artifact, if any, replaces the input file, and the input is
\* run once in Read mode
Cmd_read_run ==
    /\ pc = "start"
    /\ \E created \in (IF folder = Unreadable THEN {Unreadable, <<>>} ELSE {folder}) :
       \E o \in RunOutcomes :
        /\ folder' = created
        /\ input_file' = next_input_file(created, input_file)
        /\ command' = IF o = "failure" THEN "MinifyInput" ELSE "Read"
        /\ pc' = CASE o = "Err" -> "returned_err"
                   [] o = "success" -> "panicked"
                   [] OTHER -> "loop"
        /\ cres' = [op |-> "read_run", folder |-> created,
                    simplest |-> simplest_input_file(created),
                    previous |-> input_file, outcome |-> o, again |-> FALSE]

\* one turn of the loop: the input file is chosen and the executable launched
Cmd_launch ==
    /\ pc = "loop"
    /\ \E o \in RunOutcomes :
        /\ input_file' = next_input_file(folder, input_file)
        /\ pc' = IF o = "Err" THEN "returned_err" ELSE "loop"
        /\ cres' = [op |-> "launch", folder |-> folder,
                    simplest |-> simplest_input_file(folder),
                    previous |-> input_file, outcome |-> o,
                    again |-> cres.op = "launch"]
    /\ UNCHANGED <<folder, command>>

\* the launched fuzzer writes an artifact to the folder
ArtifactWritten ==
    /\ pc \in {"start", "loop"}
    /\ folder # Unreadable
    /\ Len(folder) < MaxFiles
    /\ \E s \in Stems :
        /\ \A i \in 1 .. Len(folder) : folder[i] # s
        /\ folder' = Append(folder, s)
    /\ UNCHANGED <<input_file, command, pc, cres>>

CliOnly == UNCHANGED <<intVars, recVars, poolVars, aocVars, serVars, andVars>>

PoolOnly == UNCHANGED <<intVars, recVars, aocVars, serVars, cliVars, andVars>>

IntOnly == UNCHANGED <<recVars, poolVars, aocVars, serVars, cliVars, andVars>>
RecOnly == UNCHANGED <<intVars, poolVars, aocVars, serVars, cliVars, andVars>>

-----------------------------------------------------------------------------
\* Specifications of the integer mutators.

\* SpecArb: the enumeration of fresh values of the 8-bit mutators
InitArb == InitInt(ArbSizes, FALSE) /\ value = 0 /\ IdleRec /\ IdlePool /\ IdleSensor /\ IdleAnd /\ IdleSer /\ IdleCli
NextArb == OrderedArbitrary(Pow2(size) + MaxExtraCalls, MaxCplxInputs) /\ IntOnly
SpecArb == InitArb /\ [][NextArb]_vars

\* SpecWide: ordered_arbitrary of the 16-bit mutators, called at any step
\* that the calls made before can have left
InitWide ==
    /\ IdleRec /\ IdlePool /\ IdleSensor /\ IdleAnd /\ IdleSer /\ IdleCli
    /\ size \in WideSizes
    /\ signed \in BOOLEAN
    /\ value = 0
    /\ icache = "unit"
    /\ mstep = 0
    /\ tokens = <<>>
    /\ trail = <<value>>
    /\ res = NoCall
    /\ produced = {}
    /\ astep \in 0 .. Pow2(size)
NextWide == OrderedArbitrary(MaxWideCalls, {INFINITY}) /\ IntOnly
SpecWide == InitWide /\ [][NextWide]_vars

\* SpecOrd: ordered_mutate, each mutation undone before the next call
InitOrd == InitInt(Sizes, FALSE) /\ IdleRec /\ IdlePool /\ IdleSensor /\ IdleAnd /\ IdleSer /\ IdleCli
NextOrd ==
    \/ OrderedMutate(1, MaxStep) /\ IntOnly
    \/ Unmutate /\ IntOnly
SpecOrd == InitOrd /\ [][NextOrd]_vars

\* SpecLifo: any mix of mutations, undone in last-in-first-out order
InitLifo == InitInt(Sizes, TRUE) /\ IdleRec /\ IdlePool /\ IdleSensor /\ IdleAnd /\ IdleSer /\ IdleCli
NextLifo ==
    \/ OrderedMutate(MaxDepth, MaxLifoStep) /\ IntOnly
    \/ RandomMutate(MaxDepth) /\ IntOnly
    \/ Unmutate /\ IntOnly
SpecLifo == InitLifo /\ [][NextLifo]_vars

-----------------------------------------------------------------------------
\* Specifications of the recursive mutators.

\* SpecRec: one mutation of the RecursiveMutator at a time, then its unmutate
InitRecSpec == InitRec("alive") /\ IdleInt /\ IdlePool /\ IdleSensor /\ IdleAnd /\ IdleSer /\ IdleCli
NextRec ==
    \/ Rec_OrderedMutate /\ RecOnly
    \/ Rec_RandomMutate /\ RecOnly
    \/ Rec_Unmutate /\ RecOnly
SpecRec == InitRecSpec /\ [][NextRec]_vars

\* SpecCplx: the complexity bounds of the integer mutators and of a
\* RecurToMutator, read at any time of the life of its RecursiveMutator
InitCplx == InitRec("constructing") /\ rvalue = <<FALSE>> /\ IdleInt /\ IdlePool /\ IdleSensor /\ IdleAnd /\ IdleSer /\ IdleCli
NextCplx ==
    \/ Rec_NewReturns /\ RecOnly
    \/ Rec_Drop /\ RecOnly
    \/ ObserveInt /\ RecOnly
    \/ ObserveRecurTo /\ RecOnly
SpecCplx == InitCplx /\ [][NextCplx]_vars

\* SpecPart: the recursing part of a RecurToMutator, asked for by any parent
\* at any time of the life of its RecursiveMutator
NextPart ==
    \/ Rec_NewReturns /\ RecOnly
    \/ Rec_Drop /\ RecOnly
    \/ RecurTo_DefaultIndex /\ RecOnly
    \/ RecurTo_RecursingPart /\ RecOnly
SpecPart == InitCplx /\ [][NextPart]_vars

(***************************************************************************)
(* The product pool under any sequence of process, minify,                *)
(* get_random_index and mark_test_case_as_dead_end calls.                  *)
(***************************************************************************)
InitPoolSpec == IdlePool /\ IdleInt /\ IdleRec /\ IdleSensor /\ IdleAnd /\ IdleSer /\ IdleCli
NextPool ==
    \/ AndPool_process /\ PoolOnly
    \/ AndPool_minify /\ PoolOnly
    \/ AndPool_get_random_index /\ PoolOnly
    \/ AndPool_mark_test_case_as_dead_end /\ PoolOnly
SpecPool == InitPoolSpec /\ [][NextPool]_vars

(***************************************************************************)
(* The indices of the product pool: get_random_index, the accessors and    *)
(* mark_test_case_as_dead_end on a product pool in any state, with the     *)
(* sub-pools left alone in between (no process, no minify).                *)
(***************************************************************************)
(***************************************************************************)
(* The array-of-counters sensor through any number of test runs, each      *)
(* bracketed by start_recording and stop_recording and followed by one or  *)
(* more iterations over the observations.                                  *)
(***************************************************************************)
InitSensorSpec == InitSensor /\ IdleInt /\ IdleRec /\ IdlePool /\ IdleSer /\ IdleCli /\ IdleAnd
NextSensor ==
    \/ Sensor_start_recording /\ SensorOnly
    \/ WriteCounter /\ SensorOnly
    \/ Sensor_stop_recording /\ SensorOnly
    \/ Sensor_iterate_over_observations /\ SensorOnly
SpecSensor == InitSensorSpec /\ [][NextSensor]_vars

InitAndSpec == InitAnd /\ IdleInt /\ IdleRec /\ IdlePool /\ IdleSensor /\ IdleSer /\ IdleCli
NextAnd ==
    \/ AndSensor_start_recording /\ AndOnly
    \/ AndSensor_WriteCounter /\ AndOnly
    \/ AndSensor_stop_recording /\ AndOnly
    \/ AndSensor_iterate_over_observations /\ AndOnly
SpecAnd == InitAndSpec /\ [][NextAnd]_vars

(***************************************************************************)
(* The byte serializer writing values to files and reading files back.     *)
(***************************************************************************)
InitSerSpec == InitSer /\ IdleInt /\ IdleRec /\ IdlePool /\ IdleSensor /\ IdleAnd /\ IdleCli
NextSer ==
    \/ Ser_to_data /\ SerOnly
    \/ Ser_from_data /\ SerOnly
    \/ Ser_new_input /\ SerOnly
SpecSer == InitSerSpec /\ [][NextSer]_vars

(***************************************************************************)
(* input_minify_command run on any artifacts folder, with the launched     *)
(* fuzzer writing artifacts to it.                                         *)
(***************************************************************************)
InitCliSpec == InitCli /\ IdleInt /\ IdleRec /\ IdlePool /\ IdleSensor /\ IdleAnd /\ IdleSer
NextCli ==
    \/ Cmd_read_run /\ CliOnly
    \/ Cmd_launch /\ CliOnly
    \/ ArtifactWritten /\ CliOnly
SpecCli == InitCliSpec /\ [][NextCli]_vars

\* SpecDelta: process and minify called with an event handler that logs the
\* deltas it is given
InitDelta ==
    /\ p1 = EmptyPool
    /\ p2 = EmptyPool
    /\ percent_choose_first = 50
    /\ pres = NoPoolCall
    /\ event_handler = "logging"
    /\ IdleInt /\ IdleRec /\ IdleSensor /\ IdleAnd /\ IdleSer /\ IdleCli
NextDelta ==
    \/ AndPool_process /\ PoolOnly
    \/ AndPool_minify /\ PoolOnly
SpecDelta == InitDelta /\ [][NextDelta]_vars

InitIndex ==
    /\ p1 \in PoolStates
    /\ p2 \in PoolStates
    /\ percent_choose_first \in PercentChooseFirst
    /\ event_handler = "plain"
    /\ pres = NoPoolCall
    /\ IdleInt
    /\ IdleRec
    /\ IdleSensor /\ IdleAnd
    /\ IdleSer
    /\ IdleCli
NextIndex ==
    \/ AndPool_get_random_index /\ PoolOnly
    \/ AndPool_access /\ PoolOnly
    \/ AndPool_mark_test_case_as_dead_end /\ PoolOnly
SpecIndex == InitIndex /\ [][NextIndex]_vars


-----------------------------------------------------------------------------
\* Properties of the integer mutators.

\* C1 (SpecLifo): unmutate inverse. Whenever unmutate is applied with the token
\* that ordered_mutate or random_mutate returned, the value is equal to the
\* value recorded before that mutation, and the cache is still the unit value.
C1_UnmutateInverse ==
    res.op = "unmutate" => (value = res.hist /\ icache = "unit")

\* a 16-bit signed value was mutated to a different value and restored
C1_Witness ==
    /\ res.op = "unmutate"
    /\ res.pre # value
    /\ value = res.hist
    /\ size = 16
    /\ signed

\* C4 (SpecArb): arbitrary termination for U8Mutator and I8Mutator. The first
\* 256 calls of ordered_arbitrary from step 0 each return a value of the type,
\* the values are pairwise distinct (so after 256 calls they are the whole
\* range), and every later call returns None and leaves the step at 256.
C4_ArbitraryTermination ==
    res.op = "ordered_arbitrary" =>
        /\ produced \subseteq TypeRange(size, signed)
        /\ Cardinality(produced) = astep
        /\ res.n <= 256 => (res.some /\ astep = res.n)
        /\ res.n > 256 =>
            /\ ~res.some
            /\ astep = 256
            /\ res.step = 256
            /\ produced = TypeRange(size, signed)

\* the 258th call on the I8Mutator: None, the whole range produced
C4_Witness ==
    /\ res.op = "ordered_arbitrary"
    /\ signed
    /\ res.n = 258
    /\ ~res.some
    /\ Cardinality(produced) = 256

\* C5 (SpecOrd): integer nudges. For an 8-bit mutator and every start value v,
\* with each mutation undone before the next call, the value produced at step
\* s < 8 is v + Nudges[s] modulo 2^8; from v = 100 the U8Mutator produces
\* 101, 99, 102, 98, 103, 97, 104, 96.
Nudges == <<1, 0 - 1, 2, 0 - 2, 3, 0 - 3, 4, 0 - 4>>
NudgesFrom100 == <<101, 99, 102, 98, 103, 97, 104, 96>>
C5_Nudges ==
    (res.op = "ordered_mutate" /\ res.some /\ size = 8 /\ res.step < 8) =>
        /\ res.pre = trail[1]
        /\ value \in TypeRange(size, signed)
        /\ (value - (res.pre + Nudges[res.step + 1])) % 256 = 0
        /\ (~signed /\ res.pre = 100) => value = NudgesFrom100[res.step + 1]

\* the second nudge of the U8Mutator from 0 wraps to 255
C5_Witness ==
    /\ res.op = "ordered_mutate"
    /\ size = 8
    /\ ~signed
    /\ res.step = 1
    /\ res.pre = 0
    /\ value = 255

\* C6 (SpecOrd): mutation-step exhaustion. A call of ordered_mutate made at a
\* step beyond 10 + MAX, where every nudge and every value of the permutation
\* has been offered, returns None: the mutator reports that it is exhausted.
C6_Exhausted ==
    (res.op = "ordered_mutate" /\ res.step > 10 + UMax(size)) => ~res.some

\* C7 (SpecArb): ordered_arbitrary respects the complexity budget. A returned
\* value has a complexity of at most max_cplx, and a first call with max_cplx
\* below min_complexity returns None.
C7_RespectsMaxCplx ==
    res.op = "ordered_arbitrary" =>
        /\ res.some => Int_complexity(res.val, icache) <= res.maxc
        /\ (res.n = 1 /\ res.maxc < Int_min_complexity) => ~res.some

\* C9 (SpecLifo): LIFO unmutation. With k pending mutations, the value is the
\* one recorded just after mutation k; so undoing the last j tokens leaves the
\* value recorded after mutation k - j, and undoing all of them the value that
\* existed before the first mutation.
C9_Lifo ==
    /\ Len(trail) = Len(tokens) + 1
    /\ value = trail[Len(tokens) + 1]
    /\ res.op = "unmutate" => (res.n = Len(tokens) + 1 /\ value = res.hist)

\* the last of three pending mutations was undone: the value is the one
\* recorded after the second mutation, which differs from the original
C9_Witness ==
    /\ res.op = "unmutate"
    /\ res.n = 3
    /\ Len(tokens) = 2
    /\ value = trail[3]
    /\ value # res.pre
    /\ value # trail[1]
    /\ trail[2] # trail[1]


-----------------------------------------------------------------------------
\* Properties of the recursive mutators.

\* C2 (SpecRec): unmutate inverse for RecursiveMutator. Whenever unmutate is
\* applied with the token (Replace or Token) that ordered_mutate or
\* random_mutate returned, the value and the cache are equal to the value and
\* the cache recorded before that mutation.
C2_RecursiveUnmutateInverse ==
    rres.op = "unmutate" => <<rvalue, rcache>> = rres.hist

\* a Replace token was applied: the value was a recursing subpart and is the
\* whole value again
C2_Witness ==
    /\ rres.op = "unmutate"
    /\ rres.kind = "Replace"
    /\ rres.pre[1] = Tail(rvalue)
    /\ <<rvalue, rcache>> = rres.hist

\* C8 (SpecCplx): complexity bounds. For every integer mutator and value,
\* min_complexity <= complexity <= max_complexity and all three are 8; for a
\* RecurToMutator whose RecursiveMutator is alive, complexity does not panic,
\* min_complexity <= complexity <= max_complexity, max_complexity is infinity
\* and min_complexity is the min_complexity of the RecursiveMutator.
C8_ComplexityBounds ==
    /\ obs.who = "int" =>
        /\ obs.min <= obs.c
        /\ obs.c <= obs.max
        /\ obs.min = 8 /\ obs.c = 8 /\ obs.max = 8
    /\ (obs.who = "RecurTo" /\ obs.rcs = "alive") =>
        /\ ~obs.panic
        /\ obs.min <= obs.c
        /\ obs.c <= obs.max
        /\ obs.max = INFINITY
        /\ obs.min = RecursiveMutator_min_complexity

\* the bounds of a live RecurToMutator read on a chain of three S
C8_Witness ==
    /\ obs.who = "RecurTo"
    /\ obs.rcs = "alive"
    /\ Len(obs.v) = 3
    /\ obs.min < obs.c
    /\ obs.c < obs.max

\* C3: when AndPool.process is given an index borrowed from one sub-pool, the
\* call does not end in an access through an index that sub-pool no longer
\* retains, and every sub-pool that is fed a test case is fed the case the
\* index designated when process was called (no get of a sub-pool is
\* evaluated on the state its own process left).
C3_FedDesignatedCase ==
    (pres.op = "process" /\ pres.input.kind = "index") =>
        /\ pres.result # Panic
        /\ pres.fed1 = pres.designated
        /\ pres.fed2 \in {NoCase, pres.designated}

\* C10: after every call of process, minify, get_random_index and
\* mark_test_case_as_dead_end, AndPool.len() is p1.len() + p2.len(), which
\* is the number of indices Left(i), Right(j) the product pool retains.
C10_Linearity ==
    /\ AndPool_len(p1, p2) = Pool_len(p1) + Pool_len(p2)
    /\ AndPool_len(p1, p2) = Cardinality(ValidIndices(p1, p2))
    /\ pres.op # "none" => pres.len = Pool_len(p1) + Pool_len(p2)

\* both sub-pools retain cases, in different numbers, after a minify that
\* removed a case and with a dead end in p2
C10_Witness ==
    /\ pres.op = "minify"
    /\ pres.target_len = 2
    /\ Pool_len(p1) = 1
    /\ Pool_len(p2) = 2
    /\ p2.dead # {}
    /\ pres.len = 3

\* C11: get_random_index samples p1 first if and only if the draw r is less
\* than percent_choose_first and p2 first otherwise, and asks the other
\* sub-pool only when the first yields no index; it returns None if and only
\* if neither sub-pool has an index to give, a Left index of p1 whenever p1
\* is sampled first and yields one, and a Right index of p2 whenever p2 is
\* sampled first and yields one.
C11_RandomIndex ==
    pres.op = "get_random_index" =>
        LET p1_first == pres.r < percent_choose_first
            none1 == Pool_get_random_index(p1) = {NoSlot}
            none2 == Pool_get_random_index(p2) = {NoSlot}
        IN /\ pres.r \in 0..99
           /\ pres.calls[1] = (IF p1_first THEN "p1.get_random_index"
                                           ELSE "p2.get_random_index")
           /\ Len(pres.calls) = 2 <=> (IF p1_first THEN none1 ELSE none2)
           /\ pres.index = NoneIndex <=> (none1 /\ none2)
           /\ (p1_first /\ ~none1) =>
                  (pres.index.side = "Left" /\ pres.index.idx \in Selectable(p1))
           /\ (~p1_first /\ ~none2) =>
                  (pres.index.side = "Right" /\ pres.index.idx \in Selectable(p2))
           /\ pres.index # NoneIndex => pres.index \in ValidIndices(p1, p2)

\* the draw equals percent_choose_first, both sub-pools have an index to
\* give, and p2 is sampled
C11_Witness ==
    /\ pres.op = "get_random_index"
    /\ pres.r = 50
    /\ percent_choose_first = 50
    /\ Selectable(p1) # {}
    /\ Selectable(p2) # {}
    /\ pres.index.side = "Right"

\* C12: an index returned by get_random_index and used at once with get,
\* get_mut or retrieve_after_processing is served by the sub-pool that
\* produced it under the same inner index: the access is defined, and what
\* it yields is the case that sub-pool retains there (for
\* retrieve_after_processing, that case or None).
C12_NoStaleIndex ==
    pres.op \in Accessors =>
        LET sub == IF pres.index.side = "Left" THEN p1 ELSE p2
        IN /\ pres.index \in ValidIndices(p1, p2)
           /\ pres.result # Panic
           /\ pres.got \in Cases \cup {NoCase}
           /\ pres.got # NoCase => pres.got = sub.cases[pres.index.idx]
           /\ pres.got = NoCase => pres.op = "retrieve_after_processing"

\* get on a Right index whose inner index designates another case in p1
C12_Witness ==
    /\ pres.op = "get"
    /\ pres.index = Right(1)
    /\ pres.got = "B"
    /\ p1.cases[1] = "A"
    /\ pres.calls = <<"p2.get">>

\* the indices of the product pool that are marked as dead ends
DeadIndices(q1, q2) == {Left(i) : i \in q1.dead} \cup {Right(j) : j \in q2.dead}

\* C13: mark_test_case_as_dead_end(Left(i)) marks exactly the case i of p1
\* and leaves p2 as it is (and symmetrically for Right(j)), and it does not
\* change len(); get_random_index never returns an index marked as a dead
\* end, and an accessor called on such an index is still defined.
C13_DeadEnds ==
    [][/\ pres'.op = "mark_test_case_as_dead_end" =>
            /\ IF pres'.index.side = "Left"
               THEN /\ p1' = [p1 EXCEPT !.dead = @ \cup {pres'.index.idx}]
                    /\ p2' = p2
               ELSE /\ p2' = [p2 EXCEPT !.dead = @ \cup {pres'.index.idx}]
                    /\ p1' = p1
            /\ AndPool_len(p1', p2') = AndPool_len(p1, p2)
            /\ pres'.index \in DeadIndices(p1', p2')
       /\ pres'.op = "get_random_index" =>
            pres'.index \notin DeadIndices(p1, p2)
       /\ (pres'.op \in Accessors /\ pres'.index \in DeadIndices(p1, p2)) =>
            /\ pres'.result # Panic
            /\ pres'.got \in Cases \cup {NoCase}
            /\ pres'.got = NoCase => pres'.op = "retrieve_after_processing"
      ]_vars

\* get on an index of p2 marked as a dead end yields its case, while p1
\* has no dead end
C13_Witness ==
    /\ pres.op = "get"
    /\ pres.index = Right(2)
    /\ p2.dead = {2}
    /\ p1.dead = {}
    /\ Retained(p1) = Slots
    /\ pres.got = "B"

\* C14: after AndPool.minify(sensor, target_len, handler) has returned Ok,
\* with sub-pools whose own minify leaves at most the target they are given,
\* AndPool.len() is at most target_len.
C14_MinifyBound ==
    (pres.op = "minify" /\ pres.result = "Ok") =>
        AndPool_len(p1, p2) <= pres.target_len

\* the indices of the pairs delivered
DeliveredIndices == {delivered[k][1] : k \in 1..Len(delivered)}

\* C15: iterate_over_observations gives the handler exactly one pair
\* (index, value) for each counter whose value is not zero, in increasing
\* order of the index, and none for a counter that is zero; it leaves the
\* counters as they are, and an iteration that follows another with no write
\* in between delivers the same pairs.
C15_Iterate ==
    sres.op = "iterate_over_observations" =>
        /\ \A k \in 1..Len(delivered) :
              /\ delivered[k][1] \in CounterIndices
              /\ delivered[k][2] = counters[delivered[k][1]]
              /\ delivered[k][2] # 0
        /\ \A k, l \in 1..Len(delivered) : k < l => delivered[k][1] < delivered[l][1]
        /\ \A i \in CounterIndices : counters[i] # 0 => i \in DeliveredIndices
        /\ counters = sres.pre
        /\ sres.again => delivered = sres.before

\* a second iteration in a row over counters of which the first is zero and
\* the second is not
C15_Witness ==
    /\ sres.op = "iterate_over_observations"
    /\ sres.again
    /\ counters[0] = 0
    /\ counters[1] = 2
    /\ delivered = <<<<1, 2>>>>

\* C16: start_recording sets every counter to zero, so the observations
\* streamed after a run report the counter i if and only if it holds a value
\* that is not zero and was written since the last start_recording: nothing
\* written in an earlier bracket is reported, and a bracket with no write
\* yields no observation.
C16_Bracket ==
    /\ sres.op = "start_recording" => \A i \in CounterIndices : counters[i] = 0
    /\ recording # "new" => \A i \in CounterIndices \ written : counters[i] = 0
    /\ sres.op = "iterate_over_observations" =>
          /\ DeliveredIndices = {i \in written : counters[i] # 0}
          /\ written = {} => delivered = <<>>

\* after a run that wrote the second counter only, the iteration reports
\* that counter and no other
C16_Witness ==
    /\ sres.op = "iterate_over_observations"
    /\ written = {1}
    /\ delivered = <<<<1, 1>>>>
    /\ counters = [i \in CounterIndices |-> IF i = 1 THEN 1 ELSE 0]

\* C17: an operation of RecurToMutator other than validate_value completes
\* without panicking in every state in which it can be called: while the
\* RecursiveMutator is being constructed, while it is alive and after it has
\* been dropped.
C17_Total ==
    obs.who = "RecurTo" => ~obs.panic

\* C18: from_data never returns None; reading back the data that to_data
\* made of a byte vector v gives Some(v), and writing the value that
\* from_data made of a byte string d gives d.
C18_RoundTrip ==
    /\ ser.op = "from_data" =>
          /\ ser.some
          /\ sval = ser.in
          /\ ser.prev = "to_data" => sval = ser.previn
    /\ ser.op = "to_data" =>
          /\ sfile = ser.in
          /\ ser.prev = "from_data" => sfile = ser.previn

\* a vector of the longest length, with different bytes, written and read back
C18_Witness ==
    /\ ser.op = "from_data"
    /\ ser.prev = "to_data"
    /\ Len(sval) = MaxBytes
    /\ sval[1] = 255
    /\ sval[MaxBytes] = 0
    /\ ser.previn = sval

\* the entries of the folder f whose stem splits on the first "--" into two
\* parts of which the first parses as a float
ParsedEntries(f) ==
    IF f = Unreadable THEN {}
    ELSE {k \in 1 .. Len(f) :
            /\ Len(splitn2(f[k])) = 2
            /\ parse_f64(splitn2(f[k])[1]).ok}

\* those of them whose float is a number
NumericEntries(f) ==
    {k \in ParsedEntries(f) : ~parse_f64(splitn2(f[k])[1]).nan}

\* C19: simplest_input_file(folder) returns None when the folder cannot be
\* read or has no file whose stem splits on the first "--" into two parts with
\* a numeric first part, and returns a file when there is one; the file
\* returned is one of these files, and its number is less than or equal to the
\* number of every other one.  (Whether NaN counts as numeric is left open:
\* the statement is the part that holds under both readings.)
C19_Simplest ==
    cres.op \in {"read_run", "launch"} =>
        LET f == cres.folder
            number(k) == parse_f64(splitn2(f[k])[1]).val
        IN /\ ParsedEntries(f) = {} => ~cres.simplest.some
           /\ NumericEntries(f) # {} => cres.simplest.some
           /\ cres.simplest.some =>
                \E k \in ParsedEntries(f) : f[k] = cres.simplest.path
           /\ NumericEntries(f) # {} =>
                \E k \in NumericEntries(f) :
                    /\ f[k] = cres.simplest.path
                    /\ \A j \in NumericEntries(f) : number(k) <= number(j)

C21_CacheValid ==
    (rres.op \in {"ordered_mutate", "random_mutate"} /\ rres.some) =>
        rcache = RecursiveMutator_validate_value(rvalue).cache

\* C22 (SpecDelta): error propagation in process and minify. Every call
\* handles p1 first. When p1's call returns an error (its own or that of the
\* event handler called for p1), the AndPool returns that error, p2's process
\* or minify is not called, p2 is left as it was and no delta of p2 is
\* emitted or reaches the handler. Ok is returned only when both sub-pools
\* returned Ok, and an error of p2 is returned as well.
C22_ErrorPropagation ==
    [][pres'.op \in {"process", "minify"} =>
        LET call == pres'
            sub1 == "p1." \o call.op
            sub2 == "p2." \o call.op
            at(name) == {i \in 1 .. Len(call.calls) : call.calls[i] = name}
        IN /\ Cardinality(at(sub1)) = 1
           /\ \A i \in at(sub1), j \in at(sub2) : i < j
           /\ call.r1 = "Err" =>
                /\ call.result = call.r1
                /\ at(sub2) = {}
                /\ call.r2 = "none"
                /\ p2' = p2
                /\ \A i \in 1 .. Len(call.emitted) : call.emitted[i].side = "Left"
                /\ \A i \in 1 .. Len(call.events) :
                    /\ \A k \in 1 .. Len(call.events[i].add) :
                        call.events[i].add[k].idx.side = "Left"
                    /\ \A k \in 1 .. Len(call.events[i].remove) :
                        call.events[i].remove[k].side = "Left"
           /\ call.result = "Ok" <=> (call.r1 = "Ok" /\ call.r2 = "Ok")
           /\ (call.r1 = "Ok" /\ call.r2 = "Err") => call.result = "Err"
    ]_vars

\* p1.process admitted the input in a p1 that is not empty, the handler
\* returned an error for its delta, and p2, which retains a case, was left
\* alone
C22_Witness ==
    /\ pres.op = "process"
    /\ pres.r1 = "Err"
    /\ pres.result = "Err"
    /\ pres.calls = <<"p1.process">>
    /\ Len(pres.events) = 1
    /\ Pool_len(p1) = 2
    /\ Pool_len(p2) = 1

\* C29 (SpecDelta): corpus deltas forwarded by the AndPool. The deltas that
\* the handler was called with during process or minify are, one for one and
\* in order, the deltas that the sub-pools emitted: same path, same added test
\* case, as many removed indices in the same order, every index tagged Left
\* for p1 and Right for p2; the deltas of p1 come before those of p2.
C29_DeltasForwarded ==
    pres.op \in {"process", "minify"} =>
        /\ Len(pres.events) = Len(pres.emitted)
        /\ \A i \in 1 .. Len(pres.emitted) :
            LET e == pres.events[i]
                side == pres.emitted[i].side
                d == pres.emitted[i].delta
            IN /\ e.path = d.path
               /\ Len(e.add) = Len(d.add)
               /\ \A k \in 1 .. Len(d.add) :
                    /\ e.add[k].content = d.add[k].content
                    /\ e.add[k].idx = [side |-> side, idx |-> d.add[k].idx]
               /\ Len(e.remove) = Len(d.remove)
               /\ \A k \in 1 .. Len(d.remove) :
                    e.remove[k] = [side |-> side, idx |-> d.remove[k]]
        /\ \A i, j \in 1 .. Len(pres.emitted) :
            (pres.emitted[i].side = "Right" /\ pres.emitted[j].side = "Left") => j < i

\* a minify in which p1 removed one case and p2 removed its two cases, the
\* second slot first
C29_Witness ==
    /\ pres.op = "minify"
    /\ Len(pres.events) = 2
    /\ pres.events[1].remove = <<Left(1)>>
    /\ pres.events[2].remove = <<Right(2), Right(1)>>
    /\ pres.events[2].path = Path2
    /\ pres.emitted[2].delta.remove = <<2, 1>>

\* the place of the byte b in the shuffled table, at b + 1
shuffled_index ==
    <<254, 126, 190, 62, 222, 94, 158, 30, 238, 110, 174, 46, 206, 78, 142, 14,
       246, 118, 182, 54, 214, 86, 150, 22, 230, 102, 166, 38, 198, 70, 134, 6,
       250, 122, 186, 58, 218, 90, 154, 26, 234, 106, 170, 42, 202, 74, 138, 10,
       242, 114, 178, 50, 210, 82, 146, 18, 226, 98, 162, 34, 194, 66, 130, 2,
       252, 124, 188, 60, 220, 92, 156, 28, 236, 108, 172, 44, 204, 76, 140, 12,
       244, 116, 180, 52, 212, 84, 148, 20, 228, 100, 164, 36, 196, 68, 132, 4,
       248, 120, 184, 56, 216, 88, 152, 24, 232, 104, 168, 40, 200, 72, 136, 8,
       240, 112, 176, 48, 208, 80, 144, 16, 224, 96, 160, 32, 192, 64, 128, 0,
       253, 125, 189, 61, 221, 93, 157, 29, 237, 109, 173, 45, 205, 77, 141, 13,
       245, 117, 181, 53, 213, 85, 149, 21, 229, 101, 165, 37, 197, 69, 133, 5,
       249, 121, 185, 57, 217, 89, 153, 25, 233, 105, 169, 41, 201, 73, 137, 9,
       241, 113, 177, 49, 209, 81, 145, 17, 225, 97, 161, 33, 193, 65, 129, 1,
       251, 123, 187, 59, 219, 91, 155, 27, 235, 107, 171, 43, 203, 75, 139, 11,
       243, 115, 179, 51, 211, 83, 147, 19, 227, 99, 163, 35, 195, 67, 131, 3,
       247, 119, 183, 55, 215, 87, 151, 23, 231, 103, 167, 39, 199, 71, 135, 7,
       239, 111, 175, 47, 207, 79, 143, 15, 223, 95, 159, 31, 191, 63, 255, 127>>

\* the step that the byte-wise scheme maps to the two bytes of u: the low
\* byte of the step is the place of the high byte of u in the table, the high
\* byte of the step is the place of the low byte of u, XOR the high byte of u
StepOf(u) ==
    shuffled_index[(u \div 256) + 1]
        + 256 * BitXor(shuffled_index[(u % 256) + 1], u \div 256)

\* C23 (SpecWide): the byte-wise scheme is a bijection on two bytes. For the
\* 16-bit mutators, a call of ordered_arbitrary at a step below 65,536 returns
\* a value of the type from which the step is recovered, and advances the
\* step by one: so the 65,536 calls made from step 0 return pairwise distinct
\* values, every value of the type once. A call at step 65,536 returns None
\* and leaves the step there.
C23_Bijection ==
    (res.op = "ordered_arbitrary" /\ size = 16) =>
        /\ res.step < 65536 =>
            /\ res.some
            /\ astep = res.step + 1
            /\ res.val \in TypeRange(size, signed)
            /\ shuffled_integers[shuffled_index[(AsUnsigned(res.val, size) \div 256) + 1]]
                    = AsUnsigned(res.val, size) \div 256
            /\ shuffled_integers[shuffled_index[(AsUnsigned(res.val, size) % 256) + 1]]
                    = AsUnsigned(res.val, size) % 256
            /\ StepOf(AsUnsigned(res.val, size)) = res.step
        /\ res.step >= 65536 => (~res.some /\ astep = 65536)

\* the call at step 65,535 of the I16Mutator returns the last value
C23_Witness ==
    /\ res.op = "ordered_arbitrary"
    /\ size = 16
    /\ signed
    /\ res.step = 65535
    /\ res.some
    /\ astep = 65536
    /\ StepOf(AsUnsigned(res.val, size)) = 65535

\* C24 (SpecOrd): no repetition in ordered mutation. For the U8Mutator and any
\* start value, with each mutation undone before the next call, the value
\* that ordered_mutate produces at a step differs from the value it produced
\* at every earlier step.
C24_NoRepetition ==
    (res.op = "ordered_mutate" /\ res.some /\ size = 8 /\ ~signed) =>
        \A s \in 0 .. (res.step - 1) :
            unsigned_ordered_mutate(res.pre, s, res.maxc, size).value # value

\* the beginning of the table as the module comment gives it
ShuffledBeginning == <<0, 255, 128, 192, 64, 224, 32>>

\* C25 (SpecArb): the shuffled table. The values that the U8Mutator produces
\* at steps 0 .. 6 are the entries 0 .. 6 of the table
\* binary_search_arbitrary(0, 255, i), and they are 0, 255, 128, 192, 64, 224,
\* 32; the entry at index 3 is 192.
C25_TableBeginning ==
    (res.op = "ordered_arbitrary" /\ res.some /\ size = 8 /\ ~signed /\ res.step < 7) =>
        /\ res.val = shuffled_integers[res.step]
        /\ shuffled_integers[res.step] = ShuffledBeginning[res.step + 1]
        /\ shuffled_integers[3] = 192

C27_OncePerIndex ==
    /\ obs.who = "default_recursing_part_index" => ~obs.index
    /\ obs.who = "recursing_part" =>
        /\ obs.index
        /\ obs.before => ~obs.some
        /\ ~obs.before =>
            (obs.some <=> (/\ obs.parent.type = "RecursiveMutator"
                           /\ obs.parent.mutator = ThisMutator))
        /\ obs.some => obs.val = obs.v

\* a second call by the owning parent, on the index that a call has set:
\* None
C27_Witness ==
    /\ obs.who = "recursing_part"
    /\ obs.parent = SelfParent
    /\ obs.before
    /\ ~obs.some
    /\ Len(obs.v) = 2

ObsOf(handler) ==
    LET sel == SelectSeq(ares.given, LAMBDA e : e.handler = handler)
    IN  [k \in 1..Len(sel) |-> sel[k].obs]

\* C30: AndSensor brackets both sensors together. start_recording calls
\* start_recording of s1 and then of s2, once each, and both are recording
\* when it returns; stop_recording calls stop_recording of s1 and then of
\* s2, once each, and neither is recording when it returns;
\* iterate_over_observations gives the observations of s1 to the first
\* handler of the pair and to no other, those of s2 to the second handler
\* and to no other, and all of s1's before any of s2's.
C30_Brackets ==
    /\ ares.op = "start_recording" =>
        /\ ares.calls = <<<<1, "start_recording">>, <<2, "start_recording">>>>
        /\ s1.recording = "recording" /\ s2.recording = "recording"
    /\ ares.op = "stop_recording" =>
        /\ ares.calls = <<<<1, "stop_recording">>, <<2, "stop_recording">>>>
        /\ s1.recording # "recording" /\ s2.recording # "recording"
    /\ ares.op = "iterate_over_observations" =>
        /\ \A k \in 1..Len(ares.given) :
            /\ ares.given[k].sensor = 1 <=> ares.given[k].handler = 0
            /\ ares.given[k].sensor = 2 <=> ares.given[k].handler = 1
        /\ \A j, k \in 1..Len(ares.given) :
            (j < k) => ~(ares.given[j].sensor = 2 /\ ares.given[k].sensor = 1)
        /\ ObsOf(0) = iterate_over_observations(s1.counters, 0)
        /\ ObsOf(1) = iterate_over_observations(s2.counters, 0)
C30_Witness ==
    /\ ares.op = "iterate_over_observations"
    /\ s1.recording = "stopped" /\ s2.recording = "stopped"
    /\ Len(ObsOf(0)) = 1 /\ Len(ObsOf(1)) = 2
    /\ s1.counters[1] = 2 /\ s2.counters[0] = 1

====
